---- MODULE Spec2Model ----
(***************************************************************************)
(* EchoStream (Python port): PTT-gated capture, UDP receive, jitter        *)
(* buffer, playback and the two-tone detector, as a state machine.         *)
(*                                                                         *)
(* Channels are the slots 0..MAX_CHANNELS-1 of audio.channels; a channel   *)
(* id is the integer slot+1 ("" is 0).  PCM samples are identified by      *)
(* <<frame sequence number, index in frame>>; gains and clipping change a  *)
(* sample's value, never its place.  Frame and chunk sizes are scaled.     *)
(***************************************************************************)
EXTENDS Integers, Sequences, FiniteSets, TLC

----------------------------------------------------------------------------
(* Program constants *)

MAX_CHANNELS == 4

\* echostream.py:20.  gpio.py, audio.py and websocket.py bind this name with
\* "from echostream import global_channel_count" at import time; main() only
\* assigns a local of the same name (main.py:83/93), so the three modules
\* keep reading 0.
global_channel_count == 0

(* Bounds of the model *)

\* number of channels the configuration file yields (main.py:83, main's local)
NumChannels == 2

\* scaled stand-in for JITTER_BUFFER_SIZE (8)
JITTER_BUFFER_SIZE == 2

\* scaled stand-in for SAMPLES_PER_FRAME (1920)
SAMPLES_PER_FRAME == 5

\* scaled stand-in for the 1024-sample playback chunk
CHUNK == 2

\* datagrams the receive worker handles in one run
MaxPackets == 3

\* audio datagrams one capture worker sends in one run
MaxSent == 2

\* scaled stand-in for the 1000 ms of a second: one unit of time is 50 ms
MS_PER_SEC == 20

\* scaled stand-in for SAMPLE_RATE (48000 samples per second)
SAMPLE_RATE == 2

\* the clock's reading when main() starts, and where the model stops it
T0 == 30

MaxTime == 70

\* the time between two readings of the clock that the model tells apart
Tick == 10

\* endpoints the server may deliver
NumEndpoints == 2

\* signalling handler threads alive at once
MaxHandlers == 2

\* channels whose capture and playback workers the lock order is followed for
LockChannels == 1

\* workers that may be handling an error at one time
MaxFaults == 1

\* datagrams the receive worker takes through the jitter lock in one run
MaxLocked == 2

Channels == 0 .. (MAX_CHANNELS - 1)

Lines == 1 .. MAX_CHANNELS

Min(a, b) == IF a < b THEN a ELSE b

Max(a, b) == IF a > b THEN a ELSE b

\* main.py:85-93: global_channel_ids[i], distinct and non-empty
global_channel_ids(i) == i + 1

----------------------------------------------------------------------------
(* Keys, ciphertexts and datagrams *)

ZeroKey == "zero"

\* audio.py:121 / websocket.py:150: the hard-coded 32-byte key
SessionKey == "46dR"

\* Opus payloads: a packet that decodes to n samples, one the decoder
\* rejects, and the empty plaintext of a 28-byte ciphertext
DecodedSizes == {1, SAMPLES_PER_FRAME}

Plains == {[kind |-> "opus", n |-> n] : n \in DecodedSizes}
            \cup {[kind |-> "badopus", n |-> 0], [kind |-> "empty", n |-> 0]}

\* crypto.py:50-80: IV || ciphertext || tag under key
encrypt_data(data, k) == [short |-> FALSE, key |-> k, plain |-> data, tag |-> "ok"]

\* a sender's blob with a flipped tag byte
FlipTag(blob) == [blob EXCEPT !.tag = "bad"]

\* a blob of fewer than 28 bytes
ShortBlob == [short |-> TRUE, key |-> "other", plain |-> [kind |-> "empty", n |-> 0], tag |-> "bad"]

EmptyBytes == [short |-> TRUE, key |-> ZeroKey, plain |-> [kind |-> "empty", n |-> 0], tag |-> "none"]

None == [kind |-> "none", n |-> 0]

decrypt_data_notag(blob, k) ==
    IF blob.short THEN None
    ELSE IF blob.key = k THEN blob.plain ELSE None

\* crypto.py:82-114: None on a short blob or when the tag does not verify
decrypt_data(blob, k) ==
    IF blob.short THEN None
    ELSE IF blob.key = k /\ blob.tag = "ok" THEN blob.plain
    ELSE None

\* "if decrypted:" (udp.py:298): None and b'' are both falsy
Truthy(p) == p # None /\ p.kind # "empty"

encode_base64(blob) == [b64 |-> TRUE, blob |-> blob]

BadBase64 == [b64 |-> FALSE, blob |-> EmptyBytes]

\* crypto.py:22-35: b'' when the string does not decode
decode_base64(s) == IF s.b64 THEN s.blob ELSE EmptyBytes

FullFrame == [kind |-> "opus", n |-> SAMPLES_PER_FRAME]

\* what a sender may put in "data": frames under the session key, a frame
\* with a flipped tag byte, frames under another key and under the all-zero
\* key, a blob shorter than 28 bytes, and a 28-byte blob (empty plaintext)
Blobs == {encrypt_data(p, SessionKey) : p \in Plains}
           \cup {FlipTag(encrypt_data(FullFrame, SessionKey)),
                 encrypt_data(FullFrame, "other"),
                 encrypt_data(FullFrame, ZeroKey),
                 ShortBlob}

\* channel ids of the configured channels, 1 .. NumChannels
ConfiguredIds == {global_channel_ids(i) : i \in 0 .. (NumChannels - 1)}

AudioDatagrams ==
    {[json |-> TRUE, type |-> "audio", channel_id |-> c, data |-> d] :
        c \in ConfiguredIds, d \in {encode_base64(b) : b \in Blobs} \cup {BadBase64}}

\* a frame for the id of a slot that is never set up, and for an id no slot has
StrayDatagrams ==
    {[json |-> TRUE, type |-> "audio", channel_id |-> c,
      data |-> encode_base64(encrypt_data(FullFrame, SessionKey))] : c \in {MAX_CHANNELS, 9}}

Garbage == [json |-> FALSE, type |-> "", channel_id |-> 0, data |-> BadBase64]

OtherType == [json |-> TRUE, type |-> "KEEP_ALIVE", channel_id |-> 1,
              data |-> encode_base64(encrypt_data(FullFrame, SessionKey))]

Datagrams == AudioDatagrams \cup StrayDatagrams \cup {Garbage, OtherType}

\* what kind of datagram d is, and the channel id it names
DgClass(d) ==
    LET blob == decode_base64(d.data)
    IN  [channel_id |-> IF d.json /\ d.type = "audio" THEN d.channel_id ELSE 0,
         cls |-> IF ~d.json THEN "garbage"
                 ELSE IF d.type # "audio" THEN "type"
                 ELSE IF d.channel_id \notin ConfiguredIds THEN "stray"
                 ELSE IF ~d.data.b64 THEN "base64"
                 ELSE IF blob.short THEN "short"
                 ELSE IF blob.tag # "ok" THEN "tagfail"
                 ELSE IF blob.key # SessionKey THEN "key"
                 ELSE blob.plain.kind]

NoDatagram == [channel_id |-> 0, cls |-> "none"]

----------------------------------------------------------------------------
(* Tone definitions: tone_detect.py:16-28, filled from the configuration *)

ToneDefinition(id, fa, fb, la, lb, rec) ==
    [tone_id |-> id, tone_a_freq |-> fa, tone_b_freq |-> fb,
     tone_a_length_ms |-> la, tone_b_length_ms |-> lb,
     tone_a_range_hz |-> 0, tone_b_range_hz |-> 0,
     record_length_ms |-> rec, valid |-> TRUE]

\* three definitions: the first two differ in their lengths by half a
\* second and in tone A, and the second asks for no recording; the third
\* has the tones of the first and a tone A 50 ms longer
tone_definitions ==
    << ToneDefinition(1, 1000, 2000, 10, 10, 20),
       ToneDefinition(2, 1011, 2000, 20, 10, 0),
       ToneDefinition(3, 1000, 2000, 11, 10, 20) >>

\* what the FFT peak estimate of a segment may come to
FreqsA == {1000, 1011}

FreqsB == {2000, 1500}

----------------------------------------------------------------------------
VARIABLES
    main_pc,                  \* where main() is
    setup_i,                  \* main.py:139 loop index
    global_interrupted,
    active,                   \* ChannelContext.active
    channel_id,               \* AudioStream.channel_id
    key,                      \* AudioStream.key
    transmitting,             \* AudioStream.transmitting
    output_stream,            \* AudioStream.output_stream is not None
    frames,                   \* output_jitter.frames
    write_index,
    read_index,
    frame_count,
    current_output_frame_pos,
    jitter_drop_count,
    decrypt_fail_count,
    zero_key_warned,
    global_udp_socket,        \* udp.global_udp_socket is not None
    listener_pc,              \* udp_listener_worker: "none", "run", "stopped"
    heartbeat_pc,
    global_ws_client,         \* websocket.global_ws_client is not None
    packets,                  \* datagrams handled so far
    last_dgram,               \* the kind of the datagram handled last
    rx_seq,                   \* frames decoded so far, per channel
    rx_pushed,                \* did the last datagram push a frame, and where
    played,                   \* the chunk the last playback iteration wrote
    fifo,                     \* reference queue: frames pushed and not dropped
    global_shared_buffer,     \* audio.global_shared_buffer
    passthrough_active,       \* tone_detect.global_tone_detection.passthrough_active
    gpio_pc,                  \* gpio_monitor_worker: "none", "init", "loop", "failed", "stopped"
    gpio_state,               \* gpio_38_state, gpio_40_state, gpio_16_state, gpio_18_state
    line,                     \* the level each PTT line has now (0 is active)
    pre_held,                 \* line read active at start-up and has not moved since
    polls,                    \* the monitor has polled since main() finished start-up
    gpio_active,              \* AudioStream.gpio_active
    input_stream,             \* AudioStream.input_stream is not None
    cap_pc,                   \* audio_input_worker: "none", "top", "read", "stopped"
    input_buffer_pos,
    sent,                     \* audio datagrams each channel has sent
    gated,                    \* the capture worker has slept at its PTT gate
    transmit_events,          \* transmit events the last poll sent
    play_pc,                  \* audio_output_worker: "none", "run", "stopped"
    td_active,                \* tone_detect.global_tone_detection.active
    global_server_addr,       \* udp.global_server_addr
    global_config,            \* websocket.global_config: the endpoint last parsed
    audio_buffer_len,         \* len(global_tone_detection.audio_buffer)
    last_detect_time,
    recording_active,
    recording_start_time,
    recording_duration_ms,
    total_detections,
    passthrough_mode,         \* audio.global_tone_detect.passthrough_mode
    now,                      \* int(time.time() * 1000)
    wake_pc,                  \* tone_detection_worker: "idle", "groups", "expiry"
    current_time_ms,          \* process_audio_python_approach's local
    wake_groups,              \* the length groups the call has still to process
    iterated,                 \* the worker has gone round its loop since the clock moved
    det_time,                 \* when each definition was detected last (-1: never)
    det_count,                \* detections of each definition, counted to 2
    act_time,                 \* when the last detection fired (-1: never)
    act_len,                  \* record_length_ms of the definition it fired for
    jitter_mutex,             \* JitterBuffer.mutex is held, per channel
    rx_target,                \* the slot whose jitter lock the receive worker is inside (-1: none)
    play_in,                  \* the slots whose playback worker is inside its jitter lock
    shared_mutex,             \* who holds global_shared_buffer.mutex: "free", "detector"
    chunk_fresh,              \* the broadcast buffer was written since the detector last copied it
    wake_total,               \* total_detections when the detector's current call began
    writers,                  \* the slots whose capture worker has written the broadcast buffer
    tone_detect_cfg,          \* config.global_config.channels[i].tone_detect
    wake_est,                 \* a_tone_freq, b_tone_freq of the group the call processed last
    last_event,               \* the signalling channel's record of each channel id's transmit events
    udp_sockets,              \* UDP sockets created and not closed
    listener_threads,         \* udp_listener_worker threads started and not ended
    heartbeat_threads,        \* heartbeat_worker threads started and not ended
    initial_keepalive,        \* where the initial KEEP_ALIVE of udp.py:70-75 went
    ws_connecting,            \* websocket_handler threads inside websockets.connect
    ws_connected,             \* websocket_handler threads with their connection open
    lock_owner,               \* the worker inside each threading.Lock, or NoOwner
    lock_script               \* the lock operations each worker's iteration has still to do

main_vars == <<main_pc, setup_i, global_interrupted, active, channel_id, key,
               transmitting, output_stream, input_stream, global_ws_client,
               cap_pc, play_pc>>

ptt_vars == <<gpio_pc, gpio_state, line, pre_held, polls, gpio_active,
              input_buffer_pos, sent, gated, transmit_events>>

shared_vars == <<global_shared_buffer, passthrough_active>>

jitter_vars == <<frames, write_index, read_index, frame_count,
                 current_output_frame_pos>>

rx_vars == <<jitter_drop_count, decrypt_fail_count, zero_key_warned,
             global_udp_socket, listener_pc, heartbeat_pc, packets, last_dgram,
             rx_seq, rx_pushed, played, fifo>>

tone_vars == <<audio_buffer_len, last_detect_time, recording_active,
               recording_start_time, recording_duration_ms, total_detections,
               passthrough_mode, now, wake_pc, current_time_ms, wake_groups,
               iterated, det_time, det_count, act_time, act_len>>

udp_cfg_vars == <<global_server_addr, global_config>>

jitter_lock_vars == <<jitter_mutex, rx_target, play_in>>

transport_vars == <<udp_sockets, listener_threads, heartbeat_threads, initial_keepalive>>

handler_vars == <<ws_connecting, ws_connected>>

lock_vars == <<lock_owner, lock_script>>

aux_vars == <<last_event, transport_vars, handler_vars, lock_vars>>

worker_sync_vars == <<jitter_lock_vars, shared_mutex, chunk_fresh, wake_total, writers,
                      tone_detect_cfg, wake_est>>

sync_vars == <<worker_sync_vars, aux_vars>>

vars == <<main_vars, jitter_vars, rx_vars, ptt_vars, shared_vars, td_active, udp_cfg_vars,
          tone_vars, sync_vars>>

----------------------------------------------------------------------------
(* audio.py:22-34 *)
AudioFrame == [seq |-> 0, sample_count |-> 0, valid |-> FALSE]

Silence == <<0, 0>>

(* audio.py:65-71, 311-316 *)
SharedAudioBuffer ==
    [samples |-> [i \in 0 .. (SAMPLES_PER_FRAME - 1) |-> Silence],
     sample_count |-> 0, valid |-> FALSE]

----------------------------------------------------------------------------
(* The locks and the order in which each worker's iteration takes them *)

\* audio.py:70 (the broadcast buffer's), tone_detect.py:73 (the detector
\* state's), audio.py:81 (the tone-detect control's), gpio.py:15, and
\* audio.py:34 (one jitter lock for each channel)
Locks ==
    {<<"shared", 0>>, <<"detection", 0>>, <<"control", 0>>, <<"gpio", 0>>}
       \cup {<<"jitter", c>> : c \in 0 .. (LockChannels - 1)}

\* audio.py:552-565 (a capture and a playback worker for each channel),
\* udp.py:84-85, main.py:133-134 and 193-194
Workers ==
    {<<"capture", c>> : c \in 0 .. (LockChannels - 1)}
       \cup {<<"playback", c>> : c \in 0 .. (LockChannels - 1)}
       \cup {<<"udp", 0>>, <<"gpio", 0>>, <<"detector", 0>>}

NoOwner == <<"none", 0>>

Acquire(l) == [op |-> "acq", lock |-> l]

Release(l) == [op |-> "rel", lock |-> l]

\* "with l:" around the lock operations body
Within(l, body) == <<Acquire(l)>> \o body \o <<Release(l)>>

\* "with l:" around code that takes no lock and waits for nothing: the
\* worker enters it when nobody is inside and leaves it in the same step
With(l) == <<[op |-> "use", lock |-> l]>>

capture_locks_nested(c) ==
    {<<>>, Within(<<"control", 0>>, With(<<"shared", 0>>))}

\* audio.py:387-393 with 296-304: nothing for a channel without tone_detect;
\* otherwise is_tone_detect_enabled, is_card1_input_enabled, then the write
\* under the broadcast buffer's lock
capture_locks(c) ==
    {<<>>, With(<<"control", 0>>) \o With(<<"control", 0>>) \o With(<<"shared", 0>>)}

\* audio.py:458-521: the passthrough read under the broadcast buffer's lock,
\* the jitter pull under the channel's jitter lock when that gave nothing
playback_locks(c) ==
    {With(<<"shared", 0>>),
     With(<<"shared", 0>>) \o With(<<"jitter", c>>),
     With(<<"jitter", c>>)}

\* udp.py:169-206: the push under the target's jitter lock
udp_locks == {With(<<"jitter", t>>) : t \in 0 .. (LockChannels - 1)}

\* gpio.py:178-250: a pass of the loop under gpio_mutex; the status report
\* calls get_recording_time_remaining_ms inside it when a recording is active
gpio_locks ==
    {With(<<"gpio", 0>>), Within(<<"gpio", 0>>, With(<<"detection", 0>>))}

\* tone_detect.py:186-211: trigger_tone_passthrough, with and without
\* start_recording_timer, then audio.set_passthrough_output_mode
trigger_locks ==
    {With(<<"detection", 0>>) \o With(<<"detection", 0>>) \o With(<<"control", 0>>),
     With(<<"detection", 0>>) \o With(<<"control", 0>>)}

\* tone_detect.py:328-337: no recording; time remaining; the timer ran out
expiry_locks ==
    {<<>>,
     With(<<"detection", 0>>),
     With(<<"detection", 0>>) \o With(<<"detection", 0>>) \o With(<<"control", 0>>)}

\* tone_detect.py:227-340: the call returns before its first lock, after the
\* append, or goes on to the groups (with no, one or two detections) and
\* the timer
process_locks ==
    {<<>>, With(<<"detection", 0>>)}
       \cup {With(<<"detection", 0>>) \o e : e \in expiry_locks}
       \cup {With(<<"detection", 0>>) \o t \o e : t \in trigger_locks, e \in expiry_locks}
       \cup {With(<<"detection", 0>>) \o t \o u \o e :
                 t \in trigger_locks, u \in trigger_locks, e \in expiry_locks}

\* main.py:173-183: the whole call is inside the broadcast buffer's lock;
\* data_ready.wait gives the lock up and takes it again
detector_locks ==
    {Within(<<"shared", 0>>, b) : b \in process_locks}
       \cup {With(<<"shared", 0>>) \o Within(<<"shared", 0>>, b) : b \in process_locks}

\* the lock operations one iteration of worker w may go through
Scripts(w) ==
    IF w[1] = "capture" THEN capture_locks(w[2])
    ELSE IF w[1] = "playback" THEN playback_locks(w[2])
    ELSE IF w[1] = "udp" THEN udp_locks
    ELSE IF w[1] = "gpio" THEN gpio_locks
    ELSE detector_locks

\* every field but the broadcast buffer
InitOther ==
    /\ main_pc = "start"
    /\ setup_i = 0
    /\ global_interrupted = FALSE
    /\ active = [c \in Channels |-> FALSE]
    /\ channel_id = [c \in Channels |-> 0]
    /\ key = [c \in Channels |-> ZeroKey]
    /\ transmitting = [c \in Channels |-> FALSE]
    /\ output_stream = [c \in Channels |-> FALSE]
    /\ frames = [c \in Channels |-> [i \in 0 .. (JITTER_BUFFER_SIZE - 1) |-> AudioFrame]]
    /\ write_index = [c \in Channels |-> 0]
    /\ read_index = [c \in Channels |-> 0]
    /\ frame_count = [c \in Channels |-> 0]
    /\ current_output_frame_pos = [c \in Channels |-> 0]
    /\ jitter_drop_count = [c \in Channels |-> 0]
    /\ decrypt_fail_count = [c \in Channels |-> 0]
    /\ zero_key_warned = [c \in Channels |-> FALSE]
    /\ global_udp_socket = FALSE
    /\ listener_pc = "none"
    /\ heartbeat_pc = "none"
    /\ global_ws_client = FALSE
    /\ packets = 0
    /\ last_dgram = NoDatagram
    /\ rx_seq = [c \in Channels |-> 0]
    /\ rx_pushed = -1
    /\ played = [c \in Channels |-> <<>>]
    /\ fifo = [c \in Channels |-> <<>>]
    /\ passthrough_active = FALSE
    /\ gpio_pc = "none"
    /\ gpio_state = [l \in Lines |-> 0]
    /\ line \in [Lines -> {0, 1}]
    /\ pre_held = [l \in Lines |-> FALSE]
    /\ polls = 0
    /\ gpio_active = [c \in Channels |-> FALSE]
    /\ input_stream = [c \in Channels |-> FALSE]
    /\ cap_pc = [c \in Channels |-> "none"]
    /\ input_buffer_pos = [c \in Channels |-> 0]
    /\ sent = [c \in Channels |-> 0]
    /\ gated = [c \in Channels |-> FALSE]
    /\ transmit_events = {}
    /\ play_pc = [c \in Channels |-> "none"]
    /\ td_active = FALSE
    /\ global_server_addr = None
    /\ udp_sockets = 0
    /\ listener_threads = 0
    /\ heartbeat_threads = 0
    /\ initial_keepalive = None
    /\ ws_connecting = 0
    /\ ws_connected = 0
    /\ lock_owner = [l \in Locks |-> NoOwner]
    /\ lock_script = [w \in Workers |-> <<>>]
    /\ global_config = None
    /\ audio_buffer_len = 0
    /\ last_detect_time = 0
    /\ recording_active = FALSE
    /\ recording_start_time = 0
    /\ recording_duration_ms = 0
    /\ total_detections = 0
    /\ passthrough_mode = FALSE
    /\ now = T0
    /\ wake_pc = "idle"
    /\ current_time_ms = 0
    /\ wake_groups = <<>>
    /\ iterated = FALSE
    /\ det_time = [d \in DOMAIN tone_definitions |-> -1]
    /\ det_count = [d \in DOMAIN tone_definitions |-> 0]
    /\ act_time = -1
    /\ act_len = 0
    /\ jitter_mutex = [c \in Channels |-> FALSE]
    /\ rx_target = -1
    /\ play_in = {}
    /\ shared_mutex = "free"
    /\ chunk_fresh = FALSE
    /\ wake_total = 0
    /\ writers = {}
    /\ wake_est = <<0, 0>>

\* config.py:127: the configuration file sets tone_detect on one channel
tone_detect_channel == 0

\* echostream.py:19: the channel ids a line or a slot can carry
ChannelIds == {global_channel_ids(i) : i \in Channels}

\* nothing has been sent on the signalling channel (websocket.py:15)
NoEvents == [id \in ChannelIds |-> "none"]

\* the signalling channel's events are not followed
AuxOff == last_event = [id \in {} |-> "none"]

\* what the signalling channel has seen of one channel id once another of
\* its events arrives: a transmit_started after none or after a
\* transmit_ended, a transmit_ended after a transmit_started, anything else
\* is out of order and stays so
AfterEvent(prev, started) ==
    IF started
    THEN IF prev \in {"none", "ended"} THEN "started" ELSE "out_of_order"
    ELSE IF prev = "started" THEN "ended" ELSE "out_of_order"

\* websocket.py:66-85: the events evs (at most one for a channel id) are put
\* on the signalling channel
Log(log, evs) ==
    [id \in DOMAIN log |->
        IF \E e \in evs : e.channel_id = id
        THEN AfterEvent(log[id], (CHOOSE e \in evs : e.channel_id = id).started)
        ELSE log[id]]

\* the start of main() with the configuration of config.py:127
InitState ==
    /\ InitOther
    /\ global_shared_buffer = SharedAudioBuffer
    /\ tone_detect_cfg = [i \in Channels |-> i = tone_detect_channel]

Init == InitState /\ AuxOff

----------------------------------------------------------------------------
(* main(): main.py:132-198, after configuration and device initialisation *)

\* main.py:133-134
main_start_gpio ==
    /\ main_pc = "start"
    /\ gpio_pc' = "init"
    /\ main_pc' = "setup"
    /\ UNCHANGED <<setup_i, global_interrupted, active, channel_id, key,
                   transmitting, output_stream, input_stream, global_ws_client,
                   cap_pc, play_pc>>
    /\ UNCHANGED <<gpio_state, line, pre_held, polls, gpio_active,
                   input_buffer_pos, sent, gated, transmit_events>>
    /\ UNCHANGED <<jitter_vars, rx_vars, shared_vars, td_active, udp_cfg_vars, sync_vars, tone_vars>>

\* main.py:139-143 with audio.py:538-568 (setup_channel), 101-129 and
\* 194-241: the key is installed and the streams opened before the two
\* workers start, and active is set last.  A device that does not open makes
\* main() return 1.
main_setup_channel ==
    /\ main_pc = "setup"
    /\ setup_i < NumChannels
    /\ \E opened \in BOOLEAN :
         IF opened
         THEN /\ channel_id' = [channel_id EXCEPT ![setup_i] = global_channel_ids(setup_i)]
              /\ key' = [key EXCEPT ![setup_i] = SessionKey]
              /\ input_stream' = [input_stream EXCEPT ![setup_i] = TRUE]
              /\ output_stream' = [output_stream EXCEPT ![setup_i] = TRUE]
              /\ transmitting' = [transmitting EXCEPT ![setup_i] = TRUE]
              /\ cap_pc' = [cap_pc EXCEPT ![setup_i] = "top"]
              /\ play_pc' = [play_pc EXCEPT ![setup_i] = "run"]
              /\ active' = [active EXCEPT ![setup_i] = TRUE]
              /\ setup_i' = setup_i + 1
              /\ main_pc' = IF setup_i + 1 < NumChannels THEN "setup" ELSE "connect"
         ELSE /\ channel_id' = [channel_id EXCEPT ![setup_i] = global_channel_ids(setup_i)]
              /\ key' = [key EXCEPT ![setup_i] = SessionKey]
              /\ main_pc' = "exited"
              /\ UNCHANGED <<input_stream, output_stream, transmitting, cap_pc,
                             play_pc, active, setup_i>>
    /\ UNCHANGED <<global_interrupted, global_ws_client>>
    /\ UNCHANGED <<jitter_vars, rx_vars, ptt_vars, shared_vars, td_active, udp_cfg_vars, sync_vars, tone_vars>>

\* main.py:151-196 with websocket.py:182-208 and tone_detect.py:89-94: main()
\* goes on only if the handler has connected within the second it waits;
\* it then starts tone detection and the detector and signalling threads
main_connect_websocket ==
    /\ main_pc = "connect"
    /\ \E connected \in BOOLEAN :
         /\ global_ws_client' = connected
         /\ ws_connected' = IF connected THEN 1 ELSE 0
         /\ td_active' = IF connected THEN TRUE ELSE td_active
         /\ UNCHANGED <<udp_cfg_vars, worker_sync_vars, lock_vars, last_event, transport_vars,
                        ws_connecting>>
         /\ main_pc' = IF connected THEN "running" ELSE "exited"
    /\ UNCHANGED <<setup_i, global_interrupted, active, channel_id, key,
                   transmitting, output_stream, input_stream, cap_pc, play_pc>>
    /\ UNCHANGED <<jitter_vars, rx_vars, ptt_vars, shared_vars, tone_vars>>

\* the process is alive: main() has not returned 1
Alive == main_pc # "exited"

\* the workers that are in the handler of an error they caught
InHandler ==
    Cardinality({c \in Channels : cap_pc[c] = "except"})
      + Cardinality({c \in Channels : play_pc[c] = "except"})
      + (IF listener_pc = "except" THEN 1 ELSE 0)
      + (IF heartbeat_pc = "except" THEN 1 ELSE 0)
      + (IF wake_pc = "except" THEN 1 ELSE 0)

after_except_dies(stop) == "stopped"

\* the loop test a worker reaches from its handler (audio.py:368 and 446,
\* udp.py:103 and 229, main.py:170): it goes on unless it is told to stop
after_except(stop) == IF stop THEN "stopped" ELSE "run"

----------------------------------------------------------------------------
(* UDP transport: udp.py *)

\* an endpoint (udp_host, udp_port) the server may deliver
Endpoint(h) == [kind |-> "addr", n |-> h]

Endpoints == {Endpoint(h) : h \in 1 .. NumEndpoints}

\* udp.py:66, reached only past the early return at udp.py:45-46
setup_server_addr(cfg) == cfg

socket_exists_unseen == FALSE

\* udp.py:45-46
socket_exists == global_udp_socket

\* udp.py:78 and 83: the thread object exists and is_alive()
thread_alive(pc) == pc \in {"run", "except"}

\* range(global_channel_count) as websocket.py reads it (websocket.py:10)
SessionRange == 0 .. (global_channel_count - 1)

\* websocket.py:148-153: the key loop of the session setup
session_keys ==
    [c \in Channels |-> IF c \in SessionRange /\ active[c] THEN SessionKey ELSE key[c]]

\* websocket.py:155-167: a transmit_started for every active slot of the
\* loop whose gpio_active is set
SetupEvents ==
    {[channel_id |-> channel_id[i], started |-> TRUE] :
        i \in {j \in SessionRange : active[j] /\ gpio_active[j]}}

\* udp.py:33-90 with websocket.py:118-168: the signalling channel delivers
\* udp_host, udp_port and websocket_id (cfg); parse_websocket_config stores
\* them in global_config, setup_global_udp brings the transport up and the
\* handler goes through its key and transmit_started loop
setup_global_udp_with(cfg) ==
    /\ Alive
    /\ global_ws_client
    /\ ~global_interrupted
    /\ global_config' = cfg
    /\ IF socket_exists
       THEN UNCHANGED <<global_udp_socket, heartbeat_pc, listener_pc, global_server_addr,
                        transport_vars>>
       ELSE /\ global_udp_socket' = TRUE
            /\ udp_sockets' = udp_sockets + 1
            /\ global_server_addr' = setup_server_addr(cfg)
            /\ initial_keepalive' = setup_server_addr(cfg)
            /\ heartbeat_pc' = IF thread_alive(heartbeat_pc) THEN heartbeat_pc ELSE "run"
            /\ heartbeat_threads' =
                  IF thread_alive(heartbeat_pc) THEN heartbeat_threads ELSE heartbeat_threads + 1
            /\ listener_pc' = IF thread_alive(listener_pc) THEN listener_pc ELSE "run"
            /\ listener_threads' =
                  IF thread_alive(listener_pc) THEN listener_threads ELSE listener_threads + 1
    /\ key' = session_keys
    /\ last_event' = Log(last_event, SetupEvents)
    /\ UNCHANGED <<jitter_drop_count, decrypt_fail_count, zero_key_warned,
                   packets, last_dgram, rx_seq, rx_pushed, played, fifo>>
    /\ UNCHANGED <<main_pc, setup_i, global_interrupted, active, channel_id,
                   transmitting, output_stream, input_stream, global_ws_client,
                   cap_pc, play_pc>>
    /\ UNCHANGED <<worker_sync_vars, lock_vars, handler_vars>>
    /\ UNCHANGED <<jitter_vars, ptt_vars, shared_vars, td_active, tone_vars>>

\* the server delivers its first endpoint
setup_global_udp == setup_global_udp_with(Endpoint(1))

\* websocket.py:118-144: the server delivers any endpoint
websocket_config == \E cfg \in Endpoints : setup_global_udp_with(cfg)

\* websocket.py:176-180: the signalling connection closes or fails
websocket_closed ==
    /\ main_pc = "running"
    /\ global_ws_client
    /\ global_ws_client' = FALSE
    /\ ws_connected' = ws_connected - 1
    /\ UNCHANGED <<main_pc, setup_i, global_interrupted, active, channel_id, key,
                   transmitting, output_stream, input_stream, cap_pc, play_pc>>
    /\ UNCHANGED <<worker_sync_vars, lock_vars, last_event, transport_vars, ws_connecting>>
    /\ UNCHANGED <<jitter_vars, rx_vars, ptt_vars, shared_vars, td_active, udp_cfg_vars,
                   tone_vars>>

\* websocket.py:182-222: the signalling thread connects again once the
\* client is unset
connect_global_websocket ==
    /\ main_pc = "running"
    /\ ~global_interrupted
    /\ ~global_ws_client
    /\ global_ws_client' = TRUE
    /\ ws_connected' = ws_connected + 1
    /\ UNCHANGED <<main_pc, setup_i, global_interrupted, active, channel_id, key,
                   transmitting, output_stream, input_stream, cap_pc, play_pc>>
    /\ UNCHANGED <<worker_sync_vars, lock_vars, last_event, transport_vars, ws_connecting>>
    /\ UNCHANGED <<jitter_vars, rx_vars, ptt_vars, shared_vars, td_active, udp_cfg_vars,
                   tone_vars>>

\* websocket.py:214-217 with 182-208: the signalling thread finds the client
\* unset and starts a handler thread on a new event loop; it looks again
\* two seconds later, whatever has become of the handler
global_websocket_thread_connect ==
    /\ main_pc = "running"
    /\ ~global_interrupted
    /\ ~global_ws_client
    /\ ws_connecting + ws_connected < MaxHandlers
    /\ ws_connecting' = ws_connecting + 1
    /\ UNCHANGED <<worker_sync_vars, lock_vars, last_event, transport_vars, ws_connected>>
    /\ UNCHANGED <<main_vars, jitter_vars, rx_vars, ptt_vars, shared_vars, td_active,
                   udp_cfg_vars, tone_vars>>

\* websocket.py:98-100: websockets.connect returns in a handler thread
websocket_handler_connected ==
    /\ main_pc = "running"
    /\ ws_connecting > 0
    /\ ws_connecting' = ws_connecting - 1
    /\ ws_connected' = ws_connected + 1
    /\ global_ws_client' = TRUE
    /\ UNCHANGED <<main_pc, setup_i, global_interrupted, active, channel_id, key,
                   transmitting, output_stream, input_stream, cap_pc, play_pc>>
    /\ UNCHANGED <<worker_sync_vars, lock_vars, last_event, transport_vars>>
    /\ UNCHANGED <<jitter_vars, rx_vars, ptt_vars, shared_vars, td_active, udp_cfg_vars,
                   tone_vars>>

\* websocket.py:97, 172-180: websockets.connect raises in a handler thread;
\* the handler unsets the client on its way out
websocket_handler_fails ==
    /\ main_pc = "running"
    /\ ws_connecting > 0
    /\ ws_connecting' = ws_connecting - 1
    /\ global_ws_client' = FALSE
    /\ UNCHANGED <<main_pc, setup_i, global_interrupted, active, channel_id, key,
                   transmitting, output_stream, input_stream, cap_pc, play_pc>>
    /\ UNCHANGED <<worker_sync_vars, lock_vars, last_event, transport_vars, ws_connected>>
    /\ UNCHANGED <<jitter_vars, rx_vars, ptt_vars, shared_vars, td_active, udp_cfg_vars,
                   tone_vars>>

\* a worker starts an iteration of its loop (audio.py:368 and 446,
\* udp.py:229, gpio.py:164, main.py:170)
worker_iteration(w) ==
    /\ main_pc = "running"
    /\ ~global_interrupted
    /\ lock_script[w] = <<>>
    /\ \E sc \in Scripts(w) \ {<<>>} : lock_script' = [lock_script EXCEPT ![w] = sc]
    /\ UNCHANGED <<worker_sync_vars, last_event, transport_vars, handler_vars, lock_owner>>
    /\ UNCHANGED <<main_vars, jitter_vars, rx_vars, ptt_vars, shared_vars, td_active,
                   udp_cfg_vars, tone_vars>>

\* threading.Lock: the worker enters "with l:" when nobody is inside (it
\* waits otherwise, be it for itself), or leaves it
worker_lock_step(w) ==
    /\ lock_script[w] # <<>>
    /\ LET o == Head(lock_script[w])
       IN  IF o.op = "acq"
           THEN /\ lock_owner[o.lock] = NoOwner
                /\ lock_owner' = [lock_owner EXCEPT ![o.lock] = w]
           ELSE IF o.op = "use"
           THEN /\ lock_owner[o.lock] = NoOwner
                /\ UNCHANGED lock_owner
           ELSE lock_owner' = [lock_owner EXCEPT ![o.lock] = NoOwner]
    /\ lock_script' = [lock_script EXCEPT ![w] = Tail(@)]
    /\ UNCHANGED <<worker_sync_vars, last_event, transport_vars, handler_vars>>
    /\ UNCHANGED <<main_vars, jitter_vars, rx_vars, ptt_vars, shared_vars, td_active,
                   udp_cfg_vars, tone_vars>>

worker_iterations == \E w \in Workers : worker_iteration(w)

worker_lock_steps == \E w \in Workers : worker_lock_step(w)

\* websocket.py:220-223: a transmit_ended for every active slot of the loop
ShutdownEvents ==
    {[channel_id |-> channel_id[i], started |-> FALSE] :
        i \in {j \in SessionRange : active[j]}}

\* websocket.py:214-225: the signalling thread leaves its loop once the
\* shutdown signal is set and goes through its transmit_ended loop;
\* send_websocket_transmit_event sends nothing without a client
\* (websocket.py:63-64)
global_websocket_thread_exit ==
    /\ main_pc = "running"
    /\ global_interrupted
    /\ last_event' = Log(last_event, IF global_ws_client THEN ShutdownEvents ELSE {})
    /\ UNCHANGED <<worker_sync_vars, lock_vars, handler_vars, transport_vars>>
    /\ UNCHANGED <<main_vars, jitter_vars, rx_vars, ptt_vars, shared_vars, td_active,
                   udp_cfg_vars, tone_vars>>

FindTarget_any_id(cid) ==
    LET S == {i \in Channels : active[i]}
    IN  IF S = {} THEN -1 ELSE CHOOSE i \in S : \A j \in S : i <= j

\* udp.py:255-259: the first active slot whose channel_id matches, or -1
FindTarget(cid) ==
    LET S == {i \in Channels : active[i] /\ channel_id[i] = cid}
    IN  IF S = {} THEN -1 ELSE CHOOSE i \in S : \A j \in S : i <= j

JitterFull_off(c) == frame_count[c] > JITTER_BUFFER_SIZE

\* udp.py:173
JitterFull(c) == frame_count[c] >= JITTER_BUFFER_SIZE

\* the samples of frame number q that holds n samples
FrameSamples(q, n) == [i \in 1 .. n |-> <<q, i - 1>>]

\* the reference queue's push: drop the oldest frame when it holds
\* JITTER_BUFFER_SIZE frames, then append
FifoPush(q, f) ==
    IF Len(q) >= JITTER_BUFFER_SIZE THEN Append(Tail(q), f) ELSE Append(q, f)

DropOldest_stays(ri) == ri

\* udp.py:176-178: the read index steps past the frame dropped
DropOldest(ri) == (ri + 1) % JITTER_BUFFER_SIZE

\* udp.py:124-211: decode and, under the jitter lock, drop the oldest frame
\* if full and store the frame at write_index.  A packet the decoder rejects
\* raises inside the try and changes nothing.
process_received_audio(t, p) ==
    IF p.kind = "opus"
    THEN LET full == JitterFull(t)
             wi == write_index[t]
             q == rx_seq[t] + 1
         IN  /\ read_index' = [read_index EXCEPT ![t] = IF full THEN DropOldest(@) ELSE @]
             /\ jitter_drop_count' = [jitter_drop_count EXCEPT ![t] =
                    IF full THEN @ + 1 ELSE @]
             /\ frames' = [frames EXCEPT ![t][wi] =
                    [seq |-> q, sample_count |-> p.n, valid |-> TRUE]]
             /\ write_index' = [write_index EXCEPT ![t] = (@ + 1) % JITTER_BUFFER_SIZE]
             /\ frame_count' = [frame_count EXCEPT ![t] =
                    (IF full THEN @ - 1 ELSE @) + 1]
             /\ rx_seq' = [rx_seq EXCEPT ![t] = q]
             /\ fifo' = [fifo EXCEPT ![t] = FifoPush(@, FrameSamples(q, p.n))]
             /\ rx_pushed' = t
             /\ UNCHANGED current_output_frame_pos
    ELSE /\ rx_pushed' = -1
         /\ UNCHANGED <<jitter_vars, jitter_drop_count, rx_seq, fifo>>

\* udp.py:306-310
decrypt_failed(t) ==
    decrypt_fail_count' = [decrypt_fail_count EXCEPT ![t] = @ + 1]

garbage_kills ==
    listener_pc' = IF last_dgram'.cls # "garbage" THEN listener_pc ELSE "stopped"

\* udp.py:312-326: every error of an iteration is caught inside the loop
listener_continues == listener_pc' = listener_pc

\* udp.py:229-326: one datagram through the receive loop
udp_listener_recv(d) ==
    /\ Alive
    /\ listener_pc = "run"
    /\ ~global_interrupted
    /\ global_udp_socket
    /\ packets < MaxPackets
    /\ packets' = packets + 1
    /\ last_dgram' = DgClass(d)
    /\ listener_continues
    /\ LET t == FindTarget(d.channel_id)
           encrypted_data == decode_base64(d.data)
       IN  IF ~d.json \/ d.type # "audio" \/ t = -1 \/ encrypted_data = EmptyBytes
           THEN /\ rx_pushed' = -1
                /\ UNCHANGED <<jitter_vars, jitter_drop_count, decrypt_fail_count,
                               zero_key_warned, rx_seq, fifo>>
           ELSE LET key_is_zero == key[t] = ZeroKey
                    decrypted == decrypt_data(encrypted_data, key[t])
                IN  IF Truthy(decrypted)
                    THEN /\ process_received_audio(t, decrypted)
                         /\ zero_key_warned' = [zero_key_warned EXCEPT ![t] =
                                IF key_is_zero THEN @ ELSE FALSE]
                         /\ UNCHANGED decrypt_fail_count
                    ELSE /\ rx_pushed' = -1
                         /\ IF key_is_zero
                            THEN /\ zero_key_warned' = [zero_key_warned EXCEPT ![t] = TRUE]
                                 /\ UNCHANGED decrypt_fail_count
                            ELSE /\ zero_key_warned' = [zero_key_warned EXCEPT ![t] = FALSE]
                                 /\ decrypt_failed(t)
                         /\ UNCHANGED <<jitter_vars, jitter_drop_count, rx_seq, fifo>>
    /\ UNCHANGED <<global_udp_socket, heartbeat_pc, played>>
    /\ UNCHANGED <<main_vars, ptt_vars, shared_vars, td_active, udp_cfg_vars, tone_vars>>

udp_listener_worker == \E d \in Datagrams : udp_listener_recv(d) /\ UNCHANGED sync_vars

\* udp.py:229-234 and 322-326: settimeout or recvfrom raises (a closed or
\* unset socket, a network error) and the outer handler catches it
udp_listener_error ==
    /\ Alive
    /\ listener_pc = "run"
    /\ ~global_udp_socket \/ (~global_interrupted /\ InHandler < MaxFaults)
    /\ listener_pc' = "except"
    /\ UNCHANGED <<jitter_drop_count, decrypt_fail_count, zero_key_warned, global_udp_socket,
                   heartbeat_pc, packets, last_dgram, rx_seq, rx_pushed, played, fifo>>
    /\ UNCHANGED <<main_vars, jitter_vars, ptt_vars, shared_vars, td_active, udp_cfg_vars, sync_vars,
                   tone_vars>>

\* udp.py:325-326 then 229
udp_listener_handled ==
    /\ listener_pc = "except"
    /\ listener_pc' = after_except(global_interrupted)
    /\ listener_threads' = IF listener_pc' = "stopped" THEN listener_threads - 1 ELSE listener_threads
    /\ UNCHANGED <<jitter_drop_count, decrypt_fail_count, zero_key_warned, global_udp_socket,
                   heartbeat_pc, packets, last_dgram, rx_seq, rx_pushed, played, fifo>>
    /\ UNCHANGED <<worker_sync_vars, lock_vars, handler_vars, last_event, udp_sockets, heartbeat_threads, initial_keepalive>>
    /\ UNCHANGED <<main_vars, jitter_vars, ptt_vars, shared_vars, td_active, udp_cfg_vars, tone_vars>>

\* udp.py:229, 328-329
udp_listener_leave ==
    /\ listener_pc = "run"
    /\ global_interrupted
    /\ listener_pc' = "stopped"
    /\ listener_threads' = IF listener_pc' = "stopped" THEN listener_threads - 1 ELSE listener_threads
    /\ UNCHANGED <<jitter_drop_count, decrypt_fail_count, zero_key_warned, global_udp_socket,
                   heartbeat_pc, packets, last_dgram, rx_seq, rx_pushed, played, fifo>>
    /\ UNCHANGED <<worker_sync_vars, lock_vars, handler_vars, last_event, udp_sockets, heartbeat_threads, initial_keepalive>>
    /\ UNCHANGED <<main_vars, jitter_vars, ptt_vars, shared_vars, td_active, udp_cfg_vars, tone_vars>>

\* udp.py:103-114: one keep-alive; a send that raises is caught at
\* udp.py:112-113
heartbeat_worker_iter ==
    /\ Alive
    /\ heartbeat_pc = "run"
    /\ ~global_interrupted
    /\ \E send_raises \in {r \in BOOLEAN : r => (global_udp_socket /\ InHandler < MaxFaults)} :
         heartbeat_pc' = IF send_raises THEN "except" ELSE heartbeat_pc
    /\ UNCHANGED <<jitter_drop_count, decrypt_fail_count, zero_key_warned, global_udp_socket,
                   listener_pc, packets, last_dgram, rx_seq, rx_pushed, played, fifo>>
    /\ UNCHANGED <<main_vars, jitter_vars, ptt_vars, shared_vars, td_active, udp_cfg_vars, sync_vars,
                   tone_vars>>

\* udp.py:115-119 then 103: the ten-second sleep, left early on shutdown
heartbeat_worker_handled ==
    /\ heartbeat_pc = "except"
    /\ heartbeat_pc' = after_except(global_interrupted)
    /\ heartbeat_threads' = IF heartbeat_pc' = "stopped" THEN heartbeat_threads - 1 ELSE heartbeat_threads
    /\ UNCHANGED <<jitter_drop_count, decrypt_fail_count, zero_key_warned, global_udp_socket,
                   listener_pc, packets, last_dgram, rx_seq, rx_pushed, played, fifo>>
    /\ UNCHANGED <<worker_sync_vars, lock_vars, handler_vars, last_event, udp_sockets, listener_threads, initial_keepalive>>
    /\ UNCHANGED <<main_vars, jitter_vars, ptt_vars, shared_vars, td_active, udp_cfg_vars, tone_vars>>

\* udp.py:103, 121-122
heartbeat_worker_leave ==
    /\ heartbeat_pc = "run"
    /\ global_interrupted
    /\ heartbeat_pc' = "stopped"
    /\ heartbeat_threads' = IF heartbeat_pc' = "stopped" THEN heartbeat_threads - 1 ELSE heartbeat_threads
    /\ UNCHANGED <<jitter_drop_count, decrypt_fail_count, zero_key_warned, global_udp_socket,
                   listener_pc, packets, last_dgram, rx_seq, rx_pushed, played, fifo>>
    /\ UNCHANGED <<worker_sync_vars, lock_vars, handler_vars, last_event, udp_sockets, listener_threads, initial_keepalive>>
    /\ UNCHANGED <<main_vars, jitter_vars, ptt_vars, shared_vars, td_active, udp_cfg_vars, tone_vars>>

----------------------------------------------------------------------------
(* Playback: audio.py:441-536 *)

\* config.py:137-138: the slot that passthrough_channel names in the
\* configuration of a channel with tone_detect and tone_passthrough set
passthrough_channel == 1

\* audio.py:330-351
is_configured_passthrough_channel_id(cid) ==
    /\ \E i \in Channels : i < NumChannels /\ tone_detect_cfg[i]
    /\ passthrough_channel >= 0
    /\ passthrough_channel < global_channel_count
    /\ cid = global_channel_ids(passthrough_channel)

\* numpy indexing of the 1024-sample output buffer: a negative index counts
\* from the end, anything outside raises IndexError
PyIndex(k) == IF k < 0 THEN k + CHUNK ELSE k

IndexError(k) == PyIndex(k) < 0 \/ PyIndex(k) >= CHUNK

RECURSIVE CopySamples(_, _, _, _, _, _)
\* audio.py:494-496: output_buffer[frames_filled + i] = frame.samples[pos + i]
CopySamples(out, base, q, pos, i, n) ==
    IF i >= n THEN out
    ELSE CopySamples([out EXCEPT ![PyIndex(base + i)] = <<q, pos + i>>],
                     base, q, pos, i + 1, n)

RECURSIVE FillSilence(_, _)
\* audio.py:518-520
FillSilence(out, filled) ==
    IF filled >= CHUNK THEN out
    ELSE FillSilence([out EXCEPT ![PyIndex(filled)] = Silence], filled + 1)

\* audio.py:508, 515
PositionAfterFrame(pos) == 0

RECURSIVE PullLoop(_)
\* audio.py:483-521, the loop under the jitter lock.  s carries
\* frames_filled, the channel's frames, read_index, frame_count,
\* current_output_frame_pos, the output buffer and whether an IndexError
\* left the loop.
PullLoop(s) ==
    IF s.err \/ s.filled >= CHUNK THEN s
    ELSE IF s.fc > 0
    THEN LET frame == s.fr[s.ri]
         IN  IF frame.valid
             THEN LET remaining_in_frame == frame.sample_count - s.pos
                      frames_to_copy == Min(CHUNK - s.filled, remaining_in_frame)
                      newpos == s.pos + frames_to_copy
                      done == newpos >= frame.sample_count
                  IN  IF frames_to_copy > 0 /\ IndexError(s.filled)
                      THEN [s EXCEPT !.err = TRUE]
                      ELSE PullLoop(
                             [filled |-> s.filled + frames_to_copy,
                              fr |-> IF done THEN [s.fr EXCEPT ![s.ri].valid = FALSE] ELSE s.fr,
                              ri |-> IF done THEN (s.ri + 1) % JITTER_BUFFER_SIZE ELSE s.ri,
                              fc |-> IF done THEN s.fc - 1 ELSE s.fc,
                              pos |-> IF done THEN PositionAfterFrame(newpos) ELSE newpos,
                              out |-> CopySamples(s.out, s.filled, frame.seq, s.pos, 0, frames_to_copy),
                              err |-> FALSE])
             ELSE PullLoop([s EXCEPT !.ri = (s.ri + 1) % JITTER_BUFFER_SIZE,
                                     !.fc = s.fc - 1,
                                     !.pos = PositionAfterFrame(s.pos)])
    ELSE IF IndexError(s.filled)
         THEN [s EXCEPT !.err = TRUE]
         ELSE [s EXCEPT !.out = FillSilence(s.out, s.filled), !.filled = CHUNK]

\* the output buffer as the sequence written to the device
AsChunk(out) == [i \in 1 .. CHUNK |-> out[i - 1]]

RECURSIVE Flatten(_)
Flatten(q) == IF q = <<>> THEN <<>> ELSE Head(q) \o Flatten(Tail(q))

RECURSIVE FifoTake(_, _)
\* the reference queue with its first n samples removed
FifoTake(q, n) ==
    IF n <= 0 \/ q = <<>> THEN q
    ELSE IF Len(Head(q)) <= n THEN FifoTake(Tail(q), n - Len(Head(q)))
    ELSE <<SubSeq(Head(q), n + 1, Len(Head(q)))>> \o Tail(q)

\* the chunk the reference queue delivers: its first samples, then silence
FifoChunk(q) ==
    LET flat == Flatten(q)
    IN  [i \in 1 .. CHUNK |-> IF i <= Len(flat) THEN flat[i] ELSE Silence]

\* audio.py:462-463: the samples the passthrough path plays
consume_take(b) ==
    LET take == Min(CHUNK, b.sample_count)
    IN  [i \in 1 .. take |-> b.samples[i - 1]]

consume_rest_stays_valid(b) ==
    LET take == Min(CHUNK, b.sample_count)
        remaining == b.sample_count - take
    IN  [b EXCEPT !.sample_count = remaining]

consume_rest_noshift(b) ==
    LET take == Min(CHUNK, b.sample_count)
    IN  IF b.sample_count > take
        THEN [b EXCEPT !.sample_count = b.sample_count - take]
        ELSE [b EXCEPT !.valid = FALSE, !.sample_count = 0]

\* audio.py:465-471: the broadcast buffer the passthrough path leaves
consume_rest(b) ==
    LET take == Min(CHUNK, b.sample_count)
        remaining == b.sample_count - take
    IN  IF b.sample_count > take
        THEN [b EXCEPT !.samples =
                  [i \in 0 .. (SAMPLES_PER_FRAME - 1) |->
                      IF i < remaining THEN b.samples[take + i] ELSE b.samples[i]],
               !.sample_count = remaining]
        ELSE [b EXCEPT !.valid = FALSE, !.sample_count = 0]

\* audio.py:446-534: one iteration of the playback loop; write_raises says
\* whether the device write at audio.py:525 raises, which the handler at
\* audio.py:529-532 catches
audio_output_worker_body(c, write_raises) ==
    /\ Alive
    /\ play_pc[c] = "run"
    /\ ~global_interrupted
    /\ transmitting[c]
    /\ (/\ output_stream[c]
        /\ is_configured_passthrough_channel_id(channel_id[c])
        /\ passthrough_active) => shared_mutex = "free"
    /\ IF ~output_stream[c]
       THEN UNCHANGED <<jitter_vars, played, fifo, global_shared_buffer>>
       ELSE IF /\ is_configured_passthrough_channel_id(channel_id[c])
               /\ passthrough_active
               /\ global_shared_buffer.valid
               /\ global_shared_buffer.sample_count > 0
            THEN /\ played' = IF write_raises THEN played
                            ELSE [played EXCEPT ![c] = consume_take(global_shared_buffer)]
                 /\ global_shared_buffer' = consume_rest(global_shared_buffer)
                 /\ UNCHANGED <<jitter_vars, fifo>>
            ELSE LET r == PullLoop([filled |-> 0, fr |-> frames[c], ri |-> read_index[c],
                                    fc |-> frame_count[c], pos |-> current_output_frame_pos[c],
                                    out |-> [i \in 0 .. (CHUNK - 1) |-> Silence], err |-> FALSE])
                 IN  /\ frames' = [frames EXCEPT ![c] = r.fr]
                     /\ read_index' = [read_index EXCEPT ![c] = r.ri]
                     /\ frame_count' = [frame_count EXCEPT ![c] = r.fc]
                     /\ current_output_frame_pos' = [current_output_frame_pos EXCEPT ![c] = r.pos]
                     /\ played' = IF write_raises THEN played
                                ELSE [played EXCEPT ![c] =
                                         IF r.err THEN <<>> ELSE AsChunk(r.out)]
                     /\ fifo' = [fifo EXCEPT ![c] = FifoTake(@, CHUNK)]
                     /\ UNCHANGED <<write_index, global_shared_buffer>>
    /\ UNCHANGED <<jitter_drop_count, decrypt_fail_count, zero_key_warned,
                   global_udp_socket, listener_pc, heartbeat_pc, packets, last_dgram,
                   rx_seq, rx_pushed>>
    /\ UNCHANGED <<passthrough_active, td_active, udp_cfg_vars, tone_vars>>
    /\ play_pc' = IF write_raises THEN [play_pc EXCEPT ![c] = "except"] ELSE play_pc
    /\ UNCHANGED <<main_pc, setup_i, global_interrupted, active, channel_id, key,
                   transmitting, output_stream, input_stream, global_ws_client, cap_pc>>
    /\ UNCHANGED ptt_vars

audio_output_worker_iter(c) == audio_output_worker_body(c, FALSE) /\ UNCHANGED sync_vars

audio_output_worker == \E c \in Channels : audio_output_worker_iter(c)

\* audio.py:525-532: the device write raises and the handler catches it
audio_output_worker_error ==
    \E c \in Channels :
        /\ output_stream[c] /\ InHandler < MaxFaults /\ audio_output_worker_body(c, TRUE)
        /\ UNCHANGED sync_vars

playback_stop_never(c) == FALSE

\* audio.py:446: the playback loop's test
playback_stop(c) == global_interrupted \/ ~transmitting[c]

\* audio.py:529-532 then 446: out of the handler and back to the loop test
audio_output_worker_handled ==
    \E c \in Channels :
        /\ play_pc[c] = "except"
        /\ play_pc' = [play_pc EXCEPT ![c] = after_except(playback_stop(c))]
        /\ UNCHANGED <<main_pc, setup_i, global_interrupted, active, channel_id, key,
                       transmitting, output_stream, input_stream, global_ws_client, cap_pc>>
        /\ UNCHANGED <<jitter_vars, rx_vars, ptt_vars, shared_vars, td_active, udp_cfg_vars, sync_vars, tone_vars>>

\* audio.py:446, 534: the loop test fails and the worker returns
audio_output_worker_leave ==
    \E c \in Channels :
        /\ play_pc[c] = "run"
        /\ playback_stop(c)
        /\ play_pc' = [play_pc EXCEPT ![c] = "stopped"]
        /\ UNCHANGED <<main_pc, setup_i, global_interrupted, active, channel_id, key,
                       transmitting, output_stream, input_stream, global_ws_client, cap_pc>>
        /\ UNCHANGED <<jitter_vars, rx_vars, ptt_vars, shared_vars, td_active, udp_cfg_vars, sync_vars, tone_vars>>

\* audio.py:460-471, the passthrough path's read of the broadcast buffer,
\* taken on its own
consume_into(c) ==
    /\ main_pc = "running"
    /\ play_pc[c] = "run"
    /\ output_stream[c]
    /\ shared_mutex = "free"
    /\ global_shared_buffer.valid
    /\ global_shared_buffer.sample_count > 0
    /\ played' = [played EXCEPT ![c] = consume_take(global_shared_buffer)]
    /\ global_shared_buffer' = consume_rest(global_shared_buffer)
    /\ UNCHANGED <<jitter_drop_count, decrypt_fail_count, zero_key_warned,
                   global_udp_socket, listener_pc, heartbeat_pc, packets, last_dgram,
                   rx_seq, rx_pushed, fifo>>
    /\ UNCHANGED <<main_vars, jitter_vars, ptt_vars, passthrough_active, td_active, udp_cfg_vars, sync_vars, tone_vars>>

passthrough_consume == \E c \in Channels : consume_into(c)

----------------------------------------------------------------------------
(* Shutdown: main.py:18-73; the handler is installed at main.py:129-130,
   before the start-up modelled here *)

handle_interrupt ==
    /\ Alive
    /\ ~global_interrupted
    /\ global_interrupted' = TRUE
    /\ global_ws_client' = FALSE
    /\ transmitting' = [c \in Channels |-> IF active[c] THEN FALSE ELSE transmitting[c]]
    /\ input_stream' = [c \in Channels |-> IF active[c] THEN FALSE ELSE input_stream[c]]
    /\ output_stream' = [c \in Channels |-> IF active[c] THEN FALSE ELSE output_stream[c]]
    /\ global_udp_socket' = FALSE
    /\ udp_sockets' = IF global_udp_socket THEN udp_sockets - 1 ELSE udp_sockets
    /\ td_active' = FALSE
    /\ UNCHANGED <<udp_cfg_vars, worker_sync_vars, lock_vars, handler_vars, last_event, listener_threads,
                   heartbeat_threads, initial_keepalive>>
    /\ UNCHANGED <<main_pc, setup_i, active, channel_id, key, cap_pc, play_pc>>
    /\ UNCHANGED <<jitter_drop_count, decrypt_fail_count, zero_key_warned, listener_pc,
                   heartbeat_pc, packets, last_dgram, rx_seq, rx_pushed, played, fifo>>
    /\ UNCHANGED <<jitter_vars, ptt_vars, shared_vars, tone_vars>>

----------------------------------------------------------------------------
(* PTT edge detector: gpio.py *)

\* the operator moves PTT line l
ptt_line_moves(l) ==
    /\ line' = [line EXCEPT ![l] = 1 - @]
    /\ pre_held' = [pre_held EXCEPT ![l] = FALSE]
    /\ UNCHANGED <<gpio_pc, gpio_state, polls, gpio_active, input_buffer_pos,
                   sent, gated, transmit_events>>
    /\ UNCHANGED <<main_vars, jitter_vars, rx_vars, shared_vars, td_active, udp_cfg_vars, sync_vars, tone_vars>>

ptt_line == \E l \in Lines : ptt_line_moves(l)

\* range(global_channel_count) as gpio.py reads it
ChannelRange == 0 .. (global_channel_count - 1)

\* gpio.py:134-138, 185-189: the first slot of range(global_channel_count)
\* that is active and carries the id mapped to line l, or -1
FindChannel(l) ==
    LET S == {i \in ChannelRange : active[i] /\ channel_id[i] = global_channel_ids(l - 1)}
    IN  IF S = {} THEN -1 ELSE CHOOSE i \in S : \A j \in S : i <= j

\* gpio.py:154, 222: the fourth line is served only with more than 3 channels
LineServed(l) == l <= 3 \/ global_channel_count > 3

\* gpio.py:107-160: claim the pins, read the initial states and apply them
gpio_monitor_init ==
    /\ gpio_pc = "init"
    /\ \E claimed \in BOOLEAN :
         IF claimed
         THEN /\ gpio_state' = line
              /\ pre_held' = [l \in Lines |-> line[l] = 0]
              /\ gpio_active' = [c \in Channels |->
                    IF \E l \in Lines : line[l] = 0 /\ LineServed(l) /\ FindChannel(l) = c
                    THEN TRUE ELSE gpio_active[c]]
              /\ gpio_pc' = "loop"
         ELSE /\ gpio_pc' = "failed"
              /\ UNCHANGED <<gpio_state, pre_held, gpio_active>>
    /\ UNCHANGED <<line, polls, input_buffer_pos, sent, gated, transmit_events>>
    /\ UNCHANGED <<main_vars, jitter_vars, rx_vars, shared_vars, td_active, udp_cfg_vars, sync_vars, tone_vars>>

\* websocket.py:54-90: nothing is sent without a client
TransmitEvent(l, v) == [channel_id |-> global_channel_ids(l - 1), started |-> v = 0]

\* gpio.py:163-256: one pass of the 100 ms loop
gpio_monitor_poll ==
    /\ gpio_pc = "loop"
    /\ IF global_interrupted
       THEN /\ gpio_pc' = "stopped"
            /\ UNCHANGED <<gpio_state, gpio_active, transmit_events, polls, last_event>>
       ELSE LET edges == {l \in Lines : line[l] # gpio_state[l]}
            IN  /\ gpio_state' = line
                /\ gpio_active' = [c \in Channels |->
                      IF \E l \in edges : LineServed(l) /\ FindChannel(l) = c
                      THEN LET l == CHOOSE k \in edges : LineServed(k) /\ FindChannel(k) = c
                           IN  line[l] = 0
                      ELSE gpio_active[c]]
                /\ transmit_events' =
                      IF global_ws_client
                      THEN {TransmitEvent(l, line[l]) : l \in {k \in edges : LineServed(k)}}
                      ELSE {}
                /\ polls' = IF main_pc = "running" THEN 1 ELSE polls
                /\ last_event' = Log(last_event, transmit_events')
                /\ UNCHANGED gpio_pc
    /\ UNCHANGED <<line, pre_held, input_buffer_pos, sent, gated>>
    /\ UNCHANGED <<worker_sync_vars, lock_vars, handler_vars, transport_vars>>
    /\ UNCHANGED <<main_vars, jitter_vars, rx_vars, shared_vars, td_active, udp_cfg_vars, tone_vars>>

----------------------------------------------------------------------------
(* Capture: audio.py:353-438 *)

CaptureGate_open(c) == TRUE

\* audio.py:369
CaptureGate(c) == gpio_active[c]

\* audio.py:360-366: the slot whose configuration has tone_detect set
channel_has_tone_detect(c) ==
    \E i \in Channels :
        /\ i < NumChannels
        /\ tone_detect_cfg[i]
        /\ channel_id[c] = global_channel_ids(i)

\* audio.py:275-280, 296-304: set by init_tone_detect_control; nothing
\* calls enable_tone_detection or disable_tone_detection afterwards
is_tone_detect_enabled == TRUE

is_card1_input_enabled == TRUE

\* the 1024 samples one read returns
Captured == [i \in 0 .. (SAMPLES_PER_FRAME - 1) |-> IF i < CHUNK THEN <<-1, i>> ELSE Silence]

\* audio.py:368-438: the loop of the capture worker, in steps: the tests at
\* its top, then the blocking read with everything that follows it, then,
\* if the read raised (a device error, or a stream the shutdown handler has
\* closed or unset), the handler at audio.py:433-436
audio_input_worker_step(c) ==
    /\ cap_pc[c] \in {"top", "read", "except"}
    /\ sent[c] < MaxSent
    /\ IF cap_pc[c] = "except"
       THEN /\ cap_pc' = [cap_pc EXCEPT ![c] =
                  IF after_except(global_interrupted \/ ~transmitting[c]) = "run"
                  THEN "top" ELSE "stopped"]
            /\ UNCHANGED <<gated, input_buffer_pos, sent, global_shared_buffer>>
       ELSE IF cap_pc[c] = "top"
       THEN /\ IF global_interrupted \/ ~transmitting[c]
               THEN cap_pc' = [cap_pc EXCEPT ![c] = "stopped"] /\ UNCHANGED gated
               ELSE IF ~CaptureGate(c) \/ ~input_stream[c]
               THEN gated' = [gated EXCEPT ![c] = TRUE] /\ UNCHANGED cap_pc
               ELSE cap_pc' = [cap_pc EXCEPT ![c] = "read"] /\ UNCHANGED gated
            /\ UNCHANGED <<input_buffer_pos, sent, global_shared_buffer>>
       ELSE /\ UNCHANGED gated
            /\ \E read_raises \in {r \in BOOLEAN : r => (input_stream[c] /\ InHandler < MaxFaults)} :
                 cap_pc' = [cap_pc EXCEPT ![c] =
                              IF read_raises \/ ~input_stream[c] THEN "except" ELSE "top"]
            /\ IF cap_pc'[c] = "except"
               THEN UNCHANGED <<input_buffer_pos, sent, global_shared_buffer>>
               ELSE /\ global_shared_buffer' =
                         IF /\ channel_has_tone_detect(c)
                            /\ is_tone_detect_enabled
                            /\ is_card1_input_enabled
                         THEN [samples |-> Captured,
                               sample_count |-> Min(CHUNK, SAMPLES_PER_FRAME),
                               valid |-> TRUE]
                         ELSE global_shared_buffer
                    /\ input_buffer_pos' = [input_buffer_pos EXCEPT ![c] =
                         (@ + CHUNK) % SAMPLES_PER_FRAME]
                    /\ sent' = [sent EXCEPT ![c] =
                         IF global_udp_socket
                         THEN @ + ((input_buffer_pos[c] + CHUNK) \div SAMPLES_PER_FRAME)
                         ELSE @]
    /\ UNCHANGED <<main_pc, setup_i, global_interrupted, active, channel_id, key,
                   transmitting, output_stream, input_stream, global_ws_client, play_pc>>
    /\ UNCHANGED <<gpio_pc, gpio_state, line, pre_held, polls, gpio_active, transmit_events>>
    /\ UNCHANGED <<jitter_vars, rx_vars, passthrough_active, td_active, udp_cfg_vars, sync_vars, tone_vars>>

audio_input_worker == \E c \in Channels : audio_input_worker_step(c)

----------------------------------------------------------------------------
(* Two-tone detector: tone_detect.py, driven by main.py:166-191 *)

Abs(x) == IF x < 0 THEN -x ELSE x

\* tone_detect.py:78
max_buffer_samples == SAMPLE_RATE * 10

\* tone_detect.py:298
tolerance == 10

\* tone_detect.py:258-263: the (tone A, tone B) lengths of the valid definitions
LengthPairs ==
    {<<tone_definitions[d].tone_a_length_ms, tone_definitions[d].tone_b_length_ms>> :
        d \in {e \in DOMAIN tone_definitions : tone_definitions[e].valid}}

RECURSIVE SortedBySum(_)
\* tone_detect.py:265: longest total first
SortedBySum(S) ==
    IF S = {} THEN <<>>
    ELSE LET g == CHOOSE x \in S : \A y \in S : x[1] + x[2] >= y[1] + y[2]
         IN  <<g>> \o SortedBySum(S \ {g})

unique_lengths == SortedBySum(LengthPairs)

\* tone_detect.py:272-291: the buffer holds enough for the group's two segments
GroupAnalysable(g) ==
    LET required_samples == ((g[1] + g[2]) * SAMPLE_RATE) \div MS_PER_SEC
        start_idx == required_samples
        end_idx == (g[2] * SAMPLE_RATE) \div MS_PER_SEC
    IN  /\ audio_buffer_len >= required_samples
        /\ ~(start_idx <= 0 \/ end_idx <= 0 \/ start_idx <= end_idx)
        /\ start_idx - end_idx >= SAMPLE_RATE \div 10
        /\ end_idx >= SAMPLE_RATE \div 10

\* tone_detect.py:305-308: within 0.1 s of the group's lengths
LengthsMatch(tone_def, g) ==
    /\ ~(Abs(tone_def.tone_a_length_ms - g[1]) * 10 > MS_PER_SEC)
    /\ ~(Abs(tone_def.tone_b_length_ms - g[2]) * 10 > MS_PER_SEC)

\* tone_detect.py:311-312
FrequenciesMatch(tone_def, fa, fb) ==
    /\ Abs(tone_def.tone_a_freq - fa) <= Max(tone_def.tone_a_range_hz, tolerance)
    /\ Abs(tone_def.tone_b_freq - fb) <= Max(tone_def.tone_b_range_hz, tolerance)

Debounced_off(tone_def) == TRUE

\* tone_detect.py:315-318
Debounced(tone_def) ==
    LET time_since_last == current_time_ms - last_detect_time
        max_tone_len_ms == Max(tone_def.tone_a_length_ms, tone_def.tone_b_length_ms)
    IN  time_since_last > max_tone_len_ms

FirstFired_undebounced(g, fa, fb) ==
    LET S == {d \in DOMAIN tone_definitions :
                 /\ tone_definitions[d].valid
                 /\ LengthsMatch(tone_definitions[d], g)
                 /\ FrequenciesMatch(tone_definitions[d], fa, fb)}
    IN  IF S = {} THEN 0 ELSE CHOOSE d \in S : \A e \in S : d <= e

\* tone_detect.py:301-326: the first definition, in table order, that the
\* group's estimates fire, or 0
FirstFired(g, fa, fb) ==
    LET S == {d \in DOMAIN tone_definitions :
                 /\ tone_definitions[d].valid
                 /\ LengthsMatch(tone_definitions[d], g)
                 /\ FrequenciesMatch(tone_definitions[d], fa, fb)
                 /\ Debounced(tone_definitions[d])}
    IN  IF S = {} THEN 0 ELSE CHOOSE d \in S : \A e \in S : d <= e

PassthroughOn_timed(tone_def) == tone_def.record_length_ms > 0

PassthroughOn_never(tone_def) == FALSE

\* tone_detect.py:191-194
PassthroughOn(tone_def) == TRUE

\* tone_detect.py:186-211: trigger_tone_passthrough with start_recording_timer
trigger_tone_passthrough(tone_def) ==
    /\ passthrough_active' = IF PassthroughOn(tone_def) THEN TRUE ELSE passthrough_active
    /\ IF tone_def.record_length_ms > 0
       THEN /\ recording_active' = TRUE
            /\ recording_start_time' = now
            /\ recording_duration_ms' = tone_def.record_length_ms
       ELSE UNCHANGED <<recording_active, recording_start_time, recording_duration_ms>>
    /\ passthrough_mode' = TRUE

\* audio.py:386-393, the write of one read into the broadcast buffer by
\* the capture worker of slot c, taken on its own
broadcast_write_by(c) ==
    /\ main_pc = "running"
    /\ ~global_interrupted
    /\ active[c]
    /\ channel_has_tone_detect(c) /\ is_tone_detect_enabled /\ is_card1_input_enabled
    /\ shared_mutex = "free"
    /\ writers' = writers \cup {c}
    /\ global_shared_buffer' = [samples |-> Captured,
                                sample_count |-> Min(CHUNK, SAMPLES_PER_FRAME),
                                valid |-> TRUE]
    /\ chunk_fresh' = TRUE
    /\ UNCHANGED <<jitter_lock_vars, shared_mutex, wake_total, tone_detect_cfg, aux_vars, wake_est>>
    /\ UNCHANGED <<main_vars, jitter_vars, rx_vars, ptt_vars, passthrough_active,
                   td_active, udp_cfg_vars, tone_vars>>

broadcast_write == \E c \in Channels : broadcast_write_by(c)

buffer_after_snapshot_consumed(b) == [b EXCEPT !.valid = FALSE, !.sample_count = 0]

\* main.py:177-180: the detector copies samples[:sample_count] under the
\* buffer's mutex; this is the buffer it leaves
buffer_after_snapshot(b) == b

\* main.py:170-183 with tone_detect.py:228-268: the worker goes round its
\* loop; inside "with global_shared_buffer.mutex:", with samples in the
\* broadcast buffer, it calls process_audio_python_approach, which appends
\* them and returns early when the detector is off, the window is shorter
\* than a second or no definition is valid.  The with block ends when the
\* call returns.
tone_detection_worker_wake ==
    /\ main_pc = "running"
    /\ ~global_interrupted
    /\ wake_pc = "idle"
    /\ shared_mutex = "free"
    /\ LET sample_count == global_shared_buffer.sample_count
       IN  IF ~(global_shared_buffer.valid /\ sample_count > 0) \/ ~td_active
           THEN /\ iterated' = TRUE
                /\ UNCHANGED <<audio_buffer_len, current_time_ms, wake_pc, wake_groups,
                               global_shared_buffer, shared_mutex, chunk_fresh, wake_total>>
           ELSE LET buffer_len == Min(audio_buffer_len + sample_count, max_buffer_samples)
                IN  /\ current_time_ms' = now
                    /\ global_shared_buffer' = buffer_after_snapshot(global_shared_buffer)
                    /\ audio_buffer_len' = buffer_len
                    /\ chunk_fresh' = FALSE
                    /\ wake_total' = total_detections
                    /\ IF buffer_len < SAMPLE_RATE \/ unique_lengths = <<>>
                       THEN /\ iterated' = TRUE
                            /\ UNCHANGED <<wake_pc, wake_groups, shared_mutex>>
                       ELSE /\ wake_pc' = "groups"
                            /\ wake_groups' = unique_lengths
                            /\ shared_mutex' = "detector"
                            /\ UNCHANGED iterated
    /\ UNCHANGED <<last_detect_time, recording_active, recording_start_time,
                   recording_duration_ms, total_detections, passthrough_mode, now,
                   det_time, det_count, act_time, act_len>>
    /\ UNCHANGED <<jitter_lock_vars, writers, tone_detect_cfg, aux_vars, wake_est>>
    /\ UNCHANGED <<main_vars, jitter_vars, rx_vars, ptt_vars, passthrough_active, td_active, udp_cfg_vars>>

\* main.py:170-187: something in the iteration raises and the handler
\* catches it
tone_detection_worker_error ==
    /\ main_pc = "running"
    /\ ~global_interrupted
    /\ wake_pc = "idle"
    /\ InHandler < MaxFaults
    /\ wake_pc' = "except"
    /\ UNCHANGED <<audio_buffer_len, last_detect_time, recording_active,
                   recording_start_time, recording_duration_ms, total_detections,
                   passthrough_mode, now, current_time_ms, wake_groups, iterated,
                   det_time, det_count, act_time, act_len>>
    /\ UNCHANGED <<main_vars, jitter_vars, rx_vars, ptt_vars, shared_vars, td_active, udp_cfg_vars, sync_vars>>

\* main.py:184-187 then 170
tone_detection_worker_handled ==
    /\ wake_pc = "except"
    /\ wake_pc' = IF after_except(global_interrupted) = "run" THEN "idle" ELSE "stopped"
    /\ UNCHANGED <<audio_buffer_len, last_detect_time, recording_active,
                   recording_start_time, recording_duration_ms, total_detections,
                   passthrough_mode, now, current_time_ms, wake_groups, iterated,
                   det_time, det_count, act_time, act_len>>
    /\ UNCHANGED <<main_vars, jitter_vars, rx_vars, ptt_vars, shared_vars, td_active, udp_cfg_vars, sync_vars>>

\* main.py:170, 189
tone_detection_worker_leave ==
    /\ main_pc = "running"
    /\ global_interrupted
    /\ wake_pc = "idle"
    /\ wake_pc' = "stopped"
    /\ UNCHANGED <<audio_buffer_len, last_detect_time, recording_active,
                   recording_start_time, recording_duration_ms, total_detections,
                   passthrough_mode, now, current_time_ms, wake_groups, iterated,
                   det_time, det_count, act_time, act_len>>
    /\ UNCHANGED <<main_vars, jitter_vars, rx_vars, ptt_vars, shared_vars, td_active, udp_cfg_vars, sync_vars>>

\* tone_detect.py:271-326: one length group of the call
process_length_group ==
    /\ wake_pc = "groups"
    /\ LET g == Head(wake_groups)
       IN  \E fa \in FreqsA, fb \in FreqsB :
             /\ wake_est' = IF GroupAnalysable(g) THEN <<fa, fb>> ELSE wake_est
             /\ LET d == IF GroupAnalysable(g) THEN FirstFired(g, fa, fb) ELSE 0
                IN  IF d # 0
                    THEN /\ last_detect_time' = current_time_ms
                         /\ total_detections' = total_detections + 1
                         /\ trigger_tone_passthrough(tone_definitions[d])
                         /\ det_time' = [det_time EXCEPT ![d] = current_time_ms]
                         /\ det_count' = [det_count EXCEPT ![d] = Min(@ + 1, 2)]
                         /\ act_time' = current_time_ms
                         /\ act_len' = tone_definitions[d].record_length_ms
                    ELSE UNCHANGED <<last_detect_time, total_detections, passthrough_active,
                                     recording_active, recording_start_time,
                                     recording_duration_ms, passthrough_mode,
                                     det_time, det_count, act_time, act_len>>
    /\ wake_groups' = Tail(wake_groups)
    /\ wake_pc' = IF Tail(wake_groups) = <<>> THEN "expiry" ELSE "groups"
    /\ UNCHANGED <<audio_buffer_len, now, current_time_ms, iterated>>
    /\ UNCHANGED <<jitter_lock_vars, shared_mutex, chunk_fresh, wake_total, writers,
                   tone_detect_cfg, aux_vars>>
    /\ UNCHANGED <<main_vars, jitter_vars, rx_vars, ptt_vars, global_shared_buffer, td_active, udp_cfg_vars>>

remaining_never_zero ==
    IF ~recording_active THEN 0
    ELSE Max(1, recording_duration_ms - (now - recording_start_time))

\* tone_detect.py:219-226
get_recording_time_remaining_ms ==
    IF ~recording_active THEN 0
    ELSE Max(0, recording_duration_ms - (now - recording_start_time))

\* tone_detect.py:328-340: the end of the call, and of the worker's with
\* block (main.py:183)
check_recording_timer ==
    /\ wake_pc = "expiry"
    /\ IF recording_active /\ get_recording_time_remaining_ms <= 0
       THEN /\ passthrough_active' = FALSE
            /\ recording_active' = FALSE
            /\ passthrough_mode' = FALSE
       ELSE UNCHANGED <<passthrough_active, recording_active, passthrough_mode>>
    /\ wake_pc' = "idle"
    /\ shared_mutex' = "free"
    /\ iterated' = TRUE
    /\ UNCHANGED <<audio_buffer_len, last_detect_time, recording_start_time,
                   recording_duration_ms, total_detections, now, current_time_ms,
                   wake_groups, det_time, det_count, act_time, act_len>>
    /\ UNCHANGED <<jitter_lock_vars, chunk_fresh, wake_total, writers, tone_detect_cfg, aux_vars, wake_est>>
    /\ UNCHANGED <<main_vars, jitter_vars, rx_vars, ptt_vars, global_shared_buffer, td_active, udp_cfg_vars>>

\* one detector tick of wall time passes: the worker has gone round its loop
\* since the last one
clock_tick ==
    /\ main_pc = "running"
    /\ wake_pc = "idle"
    /\ iterated
    /\ now + Tick <= MaxTime
    /\ now' = now + Tick
    /\ iterated' = FALSE
    /\ UNCHANGED <<audio_buffer_len, last_detect_time, recording_active,
                   recording_start_time, recording_duration_ms, total_detections,
                   passthrough_mode, wake_pc, current_time_ms, wake_groups,
                   det_time, det_count, act_time, act_len>>
    /\ UNCHANGED <<main_vars, jitter_vars, rx_vars, ptt_vars, shared_vars, td_active, udp_cfg_vars, sync_vars>>

----------------------------------------------------------------------------
Next ==
    \/ main_start_gpio
    \/ main_setup_channel
    \/ main_connect_websocket
    \/ setup_global_udp
    \/ handle_interrupt
    \/ ptt_line
    \/ gpio_monitor_init
    \/ gpio_monitor_poll
    \/ audio_input_worker

Spec == Init /\ [][Next]_vars

----------------------------------------------------------------------------
(* Claims checked under Spec *)

\* C1: no step sends an audio datagram for a channel whose gpio_active flag
\* is false when the datagram is sent.
C1_PttGating ==
    [][\A c \in Channels : sent'[c] # sent[c] => gpio_active[c]]_vars

\* a capture worker has gone round its loop with the transport up, its PTT
\* line held and seen by the edge detector and its flag false, and has sent
\* nothing
C1_Witness ==
    \E c \in Channels :
        /\ gated[c]
        /\ gpio_pc = "loop" /\ line[c + 1] = 0 /\ gpio_state[c + 1] = 0
        /\ active[c] /\ transmitting[c] /\ input_stream[c]
        /\ global_udp_socket
        /\ ~gpio_active[c]
        /\ sent[c] = 0

\* C10: once start-up is over, a PTT line that read active when the edge
\* detector started and has not moved since has its channel's gpio_active
\* flag set.
C10_PreHeldPtt ==
    \A l \in Lines :
        (/\ main_pc = "running"
         /\ ~global_interrupted
         /\ gpio_pc = "loop"
         /\ polls = 1
         /\ pre_held[l]
         /\ l <= NumChannels)
            => gpio_active[l - 1]

\* C11: a poll with the signalling client connected updates gpio_active of
\* the channel mapped to every line that differs from its recorded state and
\* emits exactly one event for each such line (started if the line is now
\* active, ended if not) and none for any other line.
C11_PttEdgeEvents ==
    [][(gpio_monitor_poll /\ ~global_interrupted /\ global_ws_client /\ main_pc = "running")
          => LET edges == {l \in Lines : line[l] # gpio_state[l]}
             IN  /\ transmit_events' = {TransmitEvent(l, line[l]) : l \in edges}
                 /\ \A l \in edges :
                      l <= NumChannels => gpio_active'[l - 1] = (line[l] = 0)]_vars


----------------------------------------------------------------------------
InitRx == Init /\ line = [l \in Lines |-> 1]

NextRx ==
    \/ main_start_gpio
    \/ main_setup_channel
    \/ main_connect_websocket
    \/ setup_global_udp
    \/ udp_listener_worker
    \/ audio_output_worker

SpecRx == InitRx /\ [][NextRx]_vars

----------------------------------------------------------------------------
(* Claims checked under SpecRx *)

\* the receive worker has just handled a datagram
Received == packets' = packets + 1

\* C2: on every channel 0 <= frame_count <= JITTER_BUFFER_SIZE always, and
\* a push that finds the buffer full leaves frame_count at
\* JITTER_BUFFER_SIZE and adds exactly 1 to the channel's drop counter.
C2_JitterCapacity ==
    /\ [](\A c \in Channels : frame_count[c] >= 0 /\ frame_count[c] <= JITTER_BUFFER_SIZE)
    /\ [][\A c \in Channels :
            (Received /\ rx_pushed' = c /\ frame_count[c] = JITTER_BUFFER_SIZE)
               => /\ frame_count'[c] = JITTER_BUFFER_SIZE
                  /\ jitter_drop_count'[c] = jitter_drop_count[c] + 1]_vars

\* a push has found the buffer full and dropped its oldest frame
C2_Witness ==
    \E c \in Channels :
        /\ jitter_drop_count[c] >= 1
        /\ frame_count[c] = JITTER_BUFFER_SIZE
        /\ rx_pushed = c

\* C3: every chunk a playback iteration takes from the jitter buffer is the
\* next CHUNK samples of the frames pushed, in push order, without the
\* frames dropped whole on overflow (silence once they run out).
C3_JitterOrder ==
    [][\A c \in Channels :
          audio_output_worker_iter(c) /\ output_stream[c]
             => played'[c] = FifoChunk(fifo[c])]_vars

\* C18: a push that finds the jitter buffer full, and so drops the oldest
\* frame, leaves the channel's read offset at 0.
C18_PushOnFullResetsOffset ==
    [][\A c \in Channels :
          (Received /\ rx_pushed' = c /\ frame_count[c] = JITTER_BUFFER_SIZE)
             => current_output_frame_pos'[c] = 0]_vars

\* C19: whenever a channel's jitter buffer holds a frame, the read offset is
\* inside the frame at read_index.
C19_ReadOffsetInvariant ==
    \A c \in Channels :
        frame_count[c] > 0
           => current_output_frame_pos[c] < frames[c][read_index[c]].sample_count

\* C20: on every channel write_index is read_index plus frame_count, modulo
\* the size of the ring.
C20_RingIndexInvariant ==
    \A c \in Channels :
        write_index[c] = (read_index[c] + frame_count[c]) % JITTER_BUFFER_SIZE

\* a frame was dropped on overflow and playback has since finished a frame:
\* both indices have moved and the ring is neither empty nor full
C20_Witness ==
    \E c \in Channels :
        /\ jitter_drop_count[c] >= 1
        /\ frame_count[c] > 0
        /\ frame_count[c] < JITTER_BUFFER_SIZE
        /\ played[c] # <<>>

\* the gate used to settle C7: a datagram for an active channel with a
\* non-zero key whose tag does not verify under that key
TagFailureFor(t) ==
    /\ Received
    /\ last_dgram'.cls \in {"tagfail", "key"}
    /\ FindTarget(last_dgram'.channel_id) = t
    /\ key[t] # ZeroKey

\* C7: a datagram for an active channel whose tag does not verify under the
\* channel's non-zero key leaves every jitter buffer unchanged, adds exactly
\* 1 to that channel's decrypt-failure counter and changes no other counter.
C7_CorruptCiphertext ==
    [][\A t \in Channels :
          TagFailureFor(t)
             => /\ UNCHANGED jitter_vars
                /\ decrypt_fail_count' = [decrypt_fail_count EXCEPT ![t] = @ + 1]
                /\ UNCHANGED jitter_drop_count]_vars

\* a flipped-tag datagram was the last one handled, for a channel whose
\* jitter buffer holds frames
C7_Witness ==
    \E t \in Channels :
        /\ last_dgram.cls = "tagfail"
        /\ active[t] /\ channel_id[t] = last_dgram.channel_id
        /\ decrypt_fail_count[t] = 1
        /\ frame_count[t] > 0

\* C8: a datagram that is not JSON, has another type, names an unknown or
\* inactive channel, carries invalid base64 or fails tag verification leaves
\* every jitter buffer unchanged and leaves the receive worker running.
C8_ReceiveLoopRobust ==
    [][(Received /\ last_dgram'.cls \in {"garbage", "type", "stray", "base64", "tagfail", "key"})
          => /\ UNCHANGED jitter_vars
             /\ listener_pc' = "run"]_vars

\* a frame was pushed after a datagram had failed tag verification: the
\* worker went on to the next datagram
C8_Witness ==
    /\ rx_pushed # -1
    /\ last_dgram.cls = "opus"
    /\ \E c \in Channels : decrypt_fail_count[c] >= 1

----------------------------------------------------------------------------
InitTone == Init /\ line = [l \in Lines |-> 1]

NextTone ==
    \/ main_start_gpio
    \/ main_setup_channel
    \/ main_connect_websocket
    \/ broadcast_write
    \/ tone_detection_worker_wake
    \/ process_length_group
    \/ check_recording_timer
    \/ clock_tick

SpecTone == InitTone /\ [][NextTone]_vars

----------------------------------------------------------------------------
(* Claims checked under SpecTone *)

\* C4: passthrough_active is false again no later than the record length of
\* the matched definition plus one detector tick after the detection that
\* set it.
C4_PassthroughDeactivates ==
    (passthrough_active /\ act_time # -1) => now <= act_time + act_len + Tick

\* the step emits a detection
DetectionFires == total_detections' = total_detections + 1

\* C5: every step that emits a detection leaves passthrough_active true, and
\* every step that changes passthrough_active from false to true emits a
\* detection.
C5_PassthroughActivation ==
    [][/\ DetectionFires => passthrough_active'
       /\ (~passthrough_active /\ passthrough_active') => DetectionFires]_vars

\* a detection has fired for the definition that asks for no recording, and
\* passthrough is on
C5_Witness ==
    /\ total_detections >= 1
    /\ act_len = 0
    /\ passthrough_active

\* C6: a detection of a definition that was detected before comes at least
\* max(tone_a_length_ms, tone_b_length_ms) after the previous one.
C6_Debounce ==
    [][\A d \in DOMAIN tone_definitions :
          (DetectionFires /\ det_count'[d] # det_count[d] /\ det_time[d] # -1)
             => det_time'[d] - det_time[d] >=
                   Max(tone_definitions[d].tone_a_length_ms,
                       tone_definitions[d].tone_b_length_ms)]_vars

\* a definition has been detected twice
C6_Witness == \E d \in DOMAIN tone_definitions : det_count[d] = 2

\* C13: a detector wake (the snapshot of the broadcast buffer and the
\* processing of the copy) leaves the buffer's samples, sample_count and
\* valid as they were.
C13_SnapshotNonDestructive ==
    [][(tone_detection_worker_wake \/ process_length_group \/ check_recording_timer)
          => /\ global_shared_buffer'.samples = global_shared_buffer.samples
             /\ global_shared_buffer'.sample_count = global_shared_buffer.sample_count
             /\ global_shared_buffer'.valid = global_shared_buffer.valid]_vars

\* the detector has taken a snapshot of a valid buffer, which is still there
C13_Witness ==
    /\ audio_buffer_len > 0
    /\ current_time_ms = now
    /\ global_shared_buffer.valid
    /\ global_shared_buffer.sample_count > 0

----------------------------------------------------------------------------
\* the broadcast buffers a read may find: any count of distinct samples,
\* valid or not
BroadcastBuffers ==
    {[samples |-> [i \in 0 .. (SAMPLES_PER_FRAME - 1) |-> <<-1, i>>],
      sample_count |-> n, valid |-> v] : n \in 0 .. SAMPLES_PER_FRAME, v \in BOOLEAN}

InitBroadcast ==
    /\ InitOther
    /\ line = [l \in Lines |-> 1]
    /\ global_shared_buffer \in BroadcastBuffers
    /\ tone_detect_cfg = [i \in Channels |-> i = tone_detect_channel]
    /\ AuxOff

NextBroadcast ==
    \/ main_start_gpio
    \/ main_setup_channel
    \/ main_connect_websocket
    \/ passthrough_consume

SpecBroadcast == InitBroadcast /\ [][NextBroadcast]_vars

----------------------------------------------------------------------------
(* Claims checked under SpecBroadcast *)

\* C12: a destructive read of a valid broadcast buffer returns its first
\* min(CHUNK, sample_count) samples, reduces sample_count by that number,
\* moves the remaining samples to the front in order, and leaves valid
\* false exactly when no sample remains.
C12_BroadcastConsume ==
    [][\A c \in Channels :
          consume_into(c)
             => LET b == global_shared_buffer
                    k == Min(CHUNK, b.sample_count)
                IN  /\ played'[c] = [i \in 1 .. k |-> b.samples[i - 1]]
                    /\ global_shared_buffer'.sample_count = b.sample_count - k
                    /\ \A i \in 0 .. (b.sample_count - k - 1) :
                          global_shared_buffer'.samples[i] = b.samples[k + i]
                    /\ global_shared_buffer'.valid <=> (b.sample_count - k > 0)]_vars

\* a read has left samples behind: the buffer is still valid and its first
\* sample is the one that followed the chunk played
C12_Witness ==
    \E c \in Channels :
        /\ Len(played[c]) = CHUNK
        /\ played[c][1] = <<-1, 0>>
        /\ global_shared_buffer.valid
        /\ global_shared_buffer.sample_count = SAMPLES_PER_FRAME - CHUNK
        /\ global_shared_buffer.samples[0] = <<-1, CHUNK>>

----------------------------------------------------------------------------
(* Start-up, the workers with their error paths, and shutdown; the PTT
   lines are at rest and no datagram arrives.  The iterations in which
   nothing goes wrong are those of Spec, SpecRx and SpecTone. *)

InitWorkers == Init /\ line = [l \in Lines |-> 1]

NextWorkers ==
    \/ main_start_gpio
    \/ main_setup_channel
    \/ main_connect_websocket
    \/ setup_global_udp
    \/ handle_interrupt
    \/ gpio_monitor_init
    \/ gpio_monitor_poll
    \/ audio_input_worker
    \/ audio_output_worker_error
    \/ audio_output_worker_handled
    \/ audio_output_worker_leave
    \/ udp_listener_error
    \/ udp_listener_handled
    \/ udp_listener_leave
    \/ heartbeat_worker_iter
    \/ heartbeat_worker_handled
    \/ heartbeat_worker_leave
    \/ tone_detection_worker_error
    \/ tone_detection_worker_handled
    \/ tone_detection_worker_leave

SpecWorkers == InitWorkers /\ [][NextWorkers]_vars

\* a step of main() or of a worker on its way round or out of its loop
ThreadStep ==
    \/ main_start_gpio
    \/ main_setup_channel
    \/ main_connect_websocket
    \/ gpio_monitor_init
    \/ gpio_monitor_poll
    \/ audio_input_worker
    \/ audio_output_worker_handled
    \/ audio_output_worker_leave
    \/ udp_listener_handled
    \/ udp_listener_leave
    \/ heartbeat_worker_handled
    \/ heartbeat_worker_leave
    \/ tone_detection_worker_handled
    \/ tone_detection_worker_leave

\* threads are scheduled and blocking calls return or time out: while some
\* thread has a step to take, one is taken
Fairness == WF_vars(ThreadStep)

SpecShutdown == SpecWorkers /\ Fairness

----------------------------------------------------------------------------
(* Claims checked under SpecWorkers and SpecShutdown *)

\* C14: an error raised in an iteration of the capture, playback, UDP
\* receive, keep-alive or tone-detection worker is caught and the worker goes
\* back to its loop; a worker leaves its loop only once the shutdown signal
\* is set, and a channel's transmitting flag is cleared only by shutdown.
C14_NoExceptionEscapes ==
    [][/\ \A c \in Channels :
            /\ (cap_pc[c] # "stopped" /\ cap_pc'[c] = "stopped") => global_interrupted
            /\ (play_pc[c] # "stopped" /\ play_pc'[c] = "stopped") => global_interrupted
            /\ (cap_pc[c] = "except" /\ ~global_interrupted) => cap_pc'[c] \in {"except", "top"}
            /\ (play_pc[c] = "except" /\ ~global_interrupted)
                  => play_pc'[c] \in {"except", "run"}
       /\ (listener_pc # "stopped" /\ listener_pc' = "stopped") => global_interrupted
       /\ (heartbeat_pc # "stopped" /\ heartbeat_pc' = "stopped") => global_interrupted
       /\ (wake_pc # "stopped" /\ wake_pc' = "stopped") => global_interrupted
       /\ (listener_pc = "except" /\ ~global_interrupted) => listener_pc' \in {"except", "run"}
       /\ (heartbeat_pc = "except" /\ ~global_interrupted)
             => heartbeat_pc' \in {"except", "run"}
       /\ (wake_pc = "except" /\ ~global_interrupted) => wake_pc' \in {"except", "idle"}]_vars

\* a playback worker is in the handler of an error it caught, no shutdown
\* has been signalled, and every other worker is in its loop
C14_Witness ==
    /\ ~global_interrupted
    /\ main_pc = "running"
    /\ \E c \in Channels : play_pc[c] = "except"
    /\ \A c \in Channels : active[c] <=> c < NumChannels
    /\ \A c \in Channels : active[c] => cap_pc[c] = "top"
    /\ listener_pc = "run"
    /\ heartbeat_pc = "run"
    /\ wake_pc = "idle"

\* every worker that was started has left its loop, or main() has returned
\* and ended the process
AllWorkersLeft ==
    \/ main_pc = "exited"
    \/ /\ main_pc = "running"
       /\ \A c \in Channels : cap_pc[c] \in {"none", "stopped"}
       /\ \A c \in Channels : play_pc[c] \in {"none", "stopped"}
       /\ listener_pc \in {"none", "stopped"}
       /\ heartbeat_pc \in {"none", "stopped"}
       /\ gpio_pc \in {"failed", "stopped"}
       /\ wake_pc = "stopped"

\* C15: once the shutdown signal is set, every core worker (capture,
\* playback, UDP receive, keep-alive, PTT edge detector, tone detection)
\* eventually leaves its loop.
C15_OrderlyShutdown == global_interrupted ~> AllWorkersLeft

\* shutdown was signalled with every kind of worker running, and all have left
C15_Witness ==
    /\ global_interrupted
    /\ main_pc = "running"
    /\ \A c \in Channels : active[c] <=> c < NumChannels
    /\ \A c \in Channels : active[c] => (cap_pc[c] = "stopped" /\ play_pc[c] = "stopped")
    /\ listener_pc = "stopped"
    /\ heartbeat_pc = "stopped"
    /\ gpio_pc = "stopped"
    /\ wake_pc = "stopped"

----------------------------------------------------------------------------
(* The signalling session: start-up, endpoints delivered, the connection
   closing and coming back, the senders (keep-alive and capture), shutdown *)

NextSession ==
    \/ main_start_gpio
    \/ main_setup_channel
    \/ main_connect_websocket
    \/ websocket_config
    \/ websocket_closed
    \/ connect_global_websocket
    \/ heartbeat_worker_iter
    \/ heartbeat_worker_handled
    \/ heartbeat_worker_leave
    \/ audio_input_worker
    \/ handle_interrupt

SpecSession == InitWorkers /\ [][NextSession]_vars

----------------------------------------------------------------------------
(* Claims checked under SpecSession *)

\* C17: the UDP endpoint exists only while the signalling connection is up,
\* and the endpoint in use is the one last delivered.
C17_SessionLifetime ==
    /\ (main_pc = "running" /\ ~global_interrupted /\ ~global_ws_client)
          => (~global_udp_socket /\ global_server_addr = None)
    /\ (global_udp_socket /\ global_config # None) => global_server_addr = global_config

----------------------------------------------------------------------------
(* The jitter buffer's lock: udp.py:169-206 and audio.py:482-521 taken as  *)
(* the two steps of a "with output_jitter.mutex:" block, entering it and   *)
(* running its body to the end                                             *)

mutex_free_never_blocks(m) == TRUE

\* audio.py:34: threading.Lock(); "with mutex:" enters when nobody holds it
mutex_free(m) == ~m

\* udp.py:124-167: the datagram gets as far as the jitter lock
ReachesPush(d) ==
    LET t == FindTarget(d.channel_id)
        encrypted_data == decode_base64(d.data)
    IN  /\ d.json /\ d.type = "audio" /\ t # -1 /\ encrypted_data # EmptyBytes
        /\ Truthy(decrypt_data(encrypted_data, key[t]))
        /\ decrypt_data(encrypted_data, key[t]).kind = "opus"

\* udp.py:169: the receive worker enters the target's "with output_jitter.mutex:"
jitter_lock_udp ==
    /\ Alive
    /\ listener_pc = "run"
    /\ ~global_interrupted
    /\ global_udp_socket
    /\ packets < MaxLocked
    /\ rx_target = -1
    /\ \E d \in Datagrams :
         /\ ReachesPush(d)
         /\ mutex_free(jitter_mutex[FindTarget(d.channel_id)])
         /\ rx_target' = FindTarget(d.channel_id)
         /\ jitter_mutex' = [jitter_mutex EXCEPT ![FindTarget(d.channel_id)] = TRUE]
    /\ UNCHANGED <<play_in, shared_mutex, chunk_fresh, wake_total, writers, tone_detect_cfg, aux_vars, wake_est>>
    /\ UNCHANGED <<main_vars, jitter_vars, rx_vars, ptt_vars, shared_vars, td_active,
                   udp_cfg_vars, tone_vars>>

\* udp.py:170-206: the block's body, and the lock released at its end
jitter_push_udp ==
    /\ rx_target # -1
    /\ \E d \in Datagrams :
         /\ ReachesPush(d)
         /\ FindTarget(d.channel_id) = rx_target
         /\ udp_listener_recv(d)
    /\ rx_target' = -1
    /\ jitter_mutex' = [jitter_mutex EXCEPT ![rx_target] = FALSE]
    /\ UNCHANGED <<play_in, shared_mutex, chunk_fresh, wake_total, writers, tone_detect_cfg, aux_vars, wake_est>>

\* audio.py:447-478: the iteration takes its chunk from the jitter buffer
TakesJitter(c) ==
    /\ output_stream[c]
    /\ ~(/\ is_configured_passthrough_channel_id(channel_id[c])
         /\ passthrough_active
         /\ global_shared_buffer.valid
         /\ global_shared_buffer.sample_count > 0)

\* audio.py:482: the playback worker enters "with output_jitter.mutex:"
jitter_lock_playback(c) ==
    /\ Alive
    /\ play_pc[c] = "run"
    /\ ~global_interrupted
    /\ transmitting[c]
    /\ TakesJitter(c)
    /\ c \notin play_in
    /\ mutex_free(jitter_mutex[c])
    /\ play_in' = play_in \cup {c}
    /\ jitter_mutex' = [jitter_mutex EXCEPT ![c] = TRUE]
    /\ UNCHANGED <<rx_target, shared_mutex, chunk_fresh, wake_total, writers, tone_detect_cfg, aux_vars, wake_est>>
    /\ UNCHANGED <<main_vars, jitter_vars, rx_vars, ptt_vars, shared_vars, td_active,
                   udp_cfg_vars, tone_vars>>

\* audio.py:483-526: the block's body, the lock released, the chunk written
jitter_pull_playback(c) ==
    /\ c \in play_in
    /\ TakesJitter(c)
    /\ audio_output_worker_body(c, FALSE)
    /\ play_in' = play_in \ {c}
    /\ jitter_mutex' = [jitter_mutex EXCEPT ![c] = FALSE]
    /\ UNCHANGED <<rx_target, shared_mutex, chunk_fresh, wake_total, writers, tone_detect_cfg, aux_vars, wake_est>>

NextJitterLock ==
    \/ main_start_gpio
    \/ main_setup_channel
    \/ main_connect_websocket
    \/ setup_global_udp
    \/ jitter_lock_udp
    \/ jitter_push_udp
    \/ \E c \in Channels : jitter_lock_playback(c)
    \/ \E c \in Channels : jitter_pull_playback(c)

SpecJitterLock == InitRx /\ [][NextJitterLock]_vars

\* the ring state of channel c that the claim names
JitterState(c) == <<frames[c], read_index[c], write_index[c], frame_count[c]>>

\* C21: every read and write of a channel's jitter buffer state (frames,
\* read_index, write_index, frame_count) happens while that buffer's own
\* lock is held by the worker doing it, so a push and a pull on one channel
\* never overlap; only the receive worker pushes, only the channel's own
\* playback worker pulls.
C21_JitterLockDiscipline ==
    /\ [](\A c \in Channels : ~(rx_target = c /\ c \in play_in))
    /\ [](\A c \in Channels : (rx_target = c \/ c \in play_in) => jitter_mutex[c])
    /\ [][\A c \in Channels :
            JitterState(c)' # JitterState(c)
               => /\ jitter_mutex[c]
                  /\ (rx_target = c \/ c \in play_in)]_vars
    /\ [][\A c \in Channels :
            /\ write_index'[c] # write_index[c] => rx_target = c
            /\ (\E i \in 0 .. (JITTER_BUFFER_SIZE - 1) :
                   frames[c][i].valid /\ ~frames'[c][i].valid) => c \in play_in]_vars

\* the playback worker is inside the lock of a channel the receive worker
\* pushed to last and may push to again
C21_Witness ==
    \E c \in Channels :
        /\ c \in play_in
        /\ jitter_mutex[c]
        /\ frame_count[c] > 0
        /\ rx_pushed = c
        /\ listener_pc = "run"
        /\ packets < MaxLocked

----------------------------------------------------------------------------
(* Claims about the broadcast buffer's lock and its writers *)

\* C22: the tone-detection worker does not hold the broadcast buffer's lock
\* while it runs the tone analysis; the lock is held only for a copy.
C22_AnalysisOutsideLock ==
    wake_pc \in {"groups", "expiry"} => shared_mutex = "free"

\* config.py:114-133, 195-197: any of the channels of the configuration
\* file may carry tone_detect
ToneDetectConfigs ==
    {f \in [Channels -> BOOLEAN] : \A i \in Channels : f[i] => i < NumChannels}

InitCapture ==
    /\ InitOther
    /\ global_shared_buffer = SharedAudioBuffer
    /\ tone_detect_cfg \in ToneDetectConfigs
    /\ AuxOff

NextCapture ==
    \/ main_start_gpio
    \/ main_setup_channel
    \/ main_connect_websocket
    \/ broadcast_write

SpecCapture == InitCapture /\ [][NextCapture]_vars

\* C23: whatever the configuration, at most one capture worker ever writes
\* the broadcast buffer.
C23_SingleBroadcastWriter == Cardinality(writers) <= 1

----------------------------------------------------------------------------
(* More claims checked under SpecTone *)

\* the detector's call appends the broadcast buffer's samples to its window
AppendsChunk ==
    /\ tone_detection_worker_wake
    /\ td_active
    /\ global_shared_buffer.valid
    /\ global_shared_buffer.sample_count > 0

\* C24: each chunk written to the broadcast buffer is appended to the
\* detector's sliding window at most once; a later wake with no new write
\* does not append it again.
C24_ChunkAppendedOnce == [][AppendsChunk => chunk_fresh]_vars

\* C26: once a definition of a length group has emitted a detection, the
\* call processes no further group: the step that emits it is the last
\* group step of the wake.
C26_StopsAfterDetection ==
    [][(process_length_group /\ DetectionFires) => wake_pc' # "groups"]_vars

\* C27: one call of the detection routine increases total_detections by at
\* most 1 and invokes passthrough activation at most once (every detection
\* invokes it once, in the step that counts it).
C27_OneDetectionPerWake ==
    /\ [](total_detections <= wake_total + 1)
    /\ [][DetectionFires => (process_length_group /\ total_detections = wake_total)]_vars

\* a call has emitted a detection in its first group and gone through the
\* groups after it
C27_Witness ==
    /\ wake_pc = "expiry"
    /\ Len(unique_lengths) >= 2
    /\ total_detections = wake_total + 1
    /\ \E d \in DOMAIN tone_definitions :
          /\ det_time[d] = current_time_ms
          /\ <<tone_definitions[d].tone_a_length_ms,
               tone_definitions[d].tone_b_length_ms>> = unique_lengths[1]
          /\ \A e \in DOMAIN tone_definitions \ {d} : det_time[e] # current_time_ms

----------------------------------------------------------------------------
(* Playback next to the detector *)

NextPassthrough ==
    \/ main_start_gpio
    \/ main_setup_channel
    \/ main_connect_websocket
    \/ broadcast_write
    \/ tone_detection_worker_wake
    \/ process_length_group
    \/ check_recording_timer
    \/ audio_output_worker

SpecPassthrough == InitTone /\ [][NextPassthrough]_vars

\* config.py:137-138 with main.py:82-93: slot c is the channel that the
\* configuration names as passthrough target, among the channels main()
\* loaded
ConfiguredPassthroughTarget(c) ==
    /\ \E i \in Channels : i < NumChannels /\ tone_detect_cfg[i]
    /\ passthrough_channel >= 0
    /\ passthrough_channel < NumChannels
    /\ channel_id[c] = global_channel_ids(passthrough_channel)

\* C25: a playback iteration of a channel takes its chunk from the
\* broadcast buffer, consuming it, if and only if the channel is the
\* configured passthrough target, passthrough_active is set and the buffer
\* is valid and non-empty; in every other case the chunk comes from the
\* channel's jitter buffer and the broadcast buffer is left unchanged.
C25_PlaybackSource ==
    [][\A c \in Channels :
          (audio_output_worker_iter(c) /\ output_stream[c])
             => IF /\ ConfiguredPassthroughTarget(c)
                   /\ passthrough_active
                   /\ global_shared_buffer.valid
                   /\ global_shared_buffer.sample_count > 0
                THEN /\ played'[c] = consume_take(global_shared_buffer)
                     /\ global_shared_buffer' = consume_rest(global_shared_buffer)
                ELSE /\ global_shared_buffer' = global_shared_buffer
                     /\ played'[c] = FifoChunk(fifo[c])]_vars

\* the step emits a detection of definition d
FiresFor(d) ==
    /\ process_length_group
    /\ DetectionFires
    /\ det_time'[d] = current_time_ms
    /\ det_time[d] # current_time_ms

\* the lengths definition d was registered with
OwnLengths(d) ==
    <<tone_definitions[d].tone_a_length_ms, tone_definitions[d].tone_b_length_ms>>

\* C28: a definition is matched only against the segments extracted with
\* exactly its own (tone_a_length_ms, tone_b_length_ms): a detection of a
\* definition is emitted only while its own length group is processed.
C28_MatchedInOwnGroup ==
    [][\A d \in DOMAIN tone_definitions :
          FiresFor(d) => Head(wake_groups) = OwnLengths(d)]_vars

\* definition e matches the estimates of the group just processed, which is
\* its own, and its duplicate suppression lets it through
MatchesOwnGroup(e) ==
    /\ process_length_group
    /\ GroupAnalysable(Head(wake_groups))
    /\ tone_definitions[e].valid
    /\ Head(wake_groups) = OwnLengths(e)
    /\ FrequenciesMatch(tone_definitions[e], wake_est'[1], wake_est'[2])
    /\ Debounced(tone_definitions[e])

TotalLength(g) == g[1] + g[2]

\* C29: when definitions of two different length groups match on the same
\* wake, the detection emitted is for a definition of the group with the
\* longer total length.
C29_LongestGroupWins ==
    [][\A d, e \in DOMAIN tone_definitions :
          (FiresFor(d) /\ MatchesOwnGroup(e))
             => TotalLength(OwnLengths(d)) >= TotalLength(OwnLengths(e))]_vars

\* the recording timer has run out
TimerElapsed == recording_active /\ now - recording_start_time >= recording_duration_ms

\* C30: every detector wake with a recording running comes to the timer
\* check at its end; if the timer has run out there (recording_active and
\* now - recording_start_time >= recording_duration_ms) the wake ends with
\* recording_active, passthrough_active and the passthrough-output switch
\* all off, and if it has not, the check clears none of the three.
C30_TimerExpiryOnWake ==
    /\ [][(tone_detection_worker_wake /\ recording_active) => wake_pc' = "groups"]_vars
    /\ [][(wake_pc = "groups" /\ wake_pc' # "groups") => wake_pc' = "expiry"]_vars
    /\ [][(wake_pc = "expiry" /\ wake_pc' # "expiry")
            => /\ wake_pc' = "idle"
               /\ IF TimerElapsed
                  THEN ~recording_active' /\ ~passthrough_active' /\ ~passthrough_mode'
                  ELSE /\ recording_active' = recording_active
                       /\ passthrough_active' = passthrough_active
                       /\ passthrough_mode' = passthrough_mode]_vars

\* a recording of a definition with a record length has run out and a wake
\* has switched passthrough off
C30_Witness ==
    /\ wake_pc = "idle"
    /\ act_time # -1
    /\ act_len > 0
    /\ recording_duration_ms > 0
    /\ now - recording_start_time >= recording_duration_ms
    /\ ~recording_active
    /\ ~passthrough_active
    /\ ~passthrough_mode

\* C31: in every reachable state the recording timer is armed only while
\* passthrough is on (recording_active implies passthrough_active): a
\* detection switches passthrough on when it arms the timer, and the expiry
\* clears both flags together.
C31_RecordingImpliesPassthrough == recording_active => passthrough_active

\* a detection of a definition with a recording length has armed the timer
C31_Witness ==
    /\ total_detections > 0
    /\ recording_active
    /\ passthrough_active
    /\ recording_duration_ms > 0

----------------------------------------------------------------------------
(* The transmit events of a session: start-up, the PTT lines and the edge
   detector, endpoints delivered, the connection closing and coming back,
   shutdown; the signalling channel keeps a record of what it is sent *)

InitEvents ==
    /\ InitState
    /\ \A l \in Lines : l > NumChannels => line[l] = 1
    /\ last_event = NoEvents

\* the operator moves the PTT line of a configured channel
ptt_line_configured == \E l \in 1 .. NumChannels : ptt_line_moves(l)

NextEvents ==
    \/ main_start_gpio
    \/ main_setup_channel
    \/ main_connect_websocket
    \/ ptt_line_configured
    \/ gpio_monitor_init
    \/ gpio_monitor_poll
    \/ setup_global_udp
    \/ websocket_closed
    \/ connect_global_websocket
    \/ handle_interrupt
    \/ global_websocket_thread_exit

SpecEvents == InitEvents /\ [][NextEvents]_vars

\* C32: for every channel id the transmit events put on the signalling
\* channel alternate and begin with a transmit_started: never two
\* transmit_started in a row, never two transmit_ended in a row, never a
\* transmit_ended first, whether they come from PTT edges, the session
\* setup or the shutdown.
C32_TransmitAlternation ==
    \A id \in DOMAIN last_event : last_event[id] # "out_of_order"

----------------------------------------------------------------------------
(* Claims checked under Spec: the line-to-channel mapping *)

\* C33: a poll that sees an edge on line i sets gpio_active of the channel
\* in slot i-1 to the line's new level and leaves the flag of every channel
\* whose line has no edge as it was; with no more than 3 channels configured
\* an edge on line 4 changes no flag and sends no event.
C33_PositionalMapping ==
    [][(gpio_monitor_poll /\ ~global_interrupted /\ main_pc = "running")
          => LET edges == {l \in Lines : line[l] # gpio_state[l]}
             IN  /\ \A l \in edges :
                      (l <= NumChannels /\ (l <= 3 \/ NumChannels > 3))
                         => gpio_active'[l - 1] = (line[l] = 0)
                 /\ \A c \in Channels :
                      (c + 1) \notin edges => gpio_active'[c] = gpio_active[c]
                 /\ (4 \in edges /\ ~(NumChannels > 3))
                      => /\ gpio_active'[3] = gpio_active[3]
                         /\ \A e \in transmit_events' :
                               e.channel_id # global_channel_ids(3)]_vars

----------------------------------------------------------------------------
(* Claims checked under SpecEvents: the session setup *)

\* the edge detector has the PTT line of slot c recorded as active
PttHeld(c) == gpio_pc = "loop" /\ gpio_state[c + 1] = 0

\* C34: when the endpoint configuration is delivered and the UDP transport
\* is up, every active channel has the session key and, for every active
\* channel whose PTT is already active, a transmit_started is put on the
\* signalling channel by that step (unless the channel's last event already
\* is a transmit_started).
C34_SessionSetup ==
    [][(setup_global_udp /\ global_udp_socket')
          => \A c \in Channels :
               active[c]
                  => /\ key'[c] = SessionKey
                     /\ (PttHeld(c) /\ last_event[channel_id[c]] \in {"none", "ended"})
                           => last_event'[channel_id[c]] = "started"]_vars

----------------------------------------------------------------------------
(* Claims checked under SpecRx: routing and the decrypt-failure counter *)

\* C35: an audio datagram that decrypts and decodes is pushed onto the
\* jitter buffer of the active channel whose channel_id is the datagram's
\* and onto no other; no datagram changes the jitter buffer of a channel
\* that is inactive or has another channel_id.
C35_ReceiveRouting ==
    [][Received
          => /\ \A c \in Channels :
                  (~active[c] \/ channel_id[c] # last_dgram'.channel_id)
                     => JitterState(c)' = JitterState(c)
             /\ last_dgram'.cls = "opus"
                  => \E t \in Channels :
                       /\ active[t]
                       /\ channel_id[t] = last_dgram'.channel_id
                       /\ rx_pushed' = t
                       /\ frames'[t][write_index[t]].valid
                       /\ frames'[t][write_index[t]].seq = rx_seq'[t]
                       /\ rx_seq'[t] = rx_seq[t] + 1
                       /\ \A c \in Channels \ {t} :
                            JitterState(c)' = JitterState(c)]_vars

\* the last datagram was a frame for the second channel: it is in that
\* channel's jitter buffer and the first channel's, active too, is empty
C35_Witness ==
    /\ last_dgram.cls = "opus"
    /\ last_dgram.channel_id = global_channel_ids(1)
    /\ rx_pushed = 1
    /\ active[0] /\ active[1]
    /\ frame_count[1] > 0
    /\ frame_count[0] = 0

\* the datagram handled is one for the active channel t, with a non-zero
\* key, whose decryption fails: fewer than 28 bytes, a tag that does not
\* verify, or another key
DecryptionFailsFor(t) ==
    /\ FindTarget(last_dgram'.channel_id) = t
    /\ last_dgram'.cls \in {"short", "tagfail", "key"}
    /\ key[t] # ZeroKey

\* C36: a datagram adds 1 to a channel's decrypt-failure counter exactly
\* when it is for that channel and its decryption fails under the channel's
\* non-zero key; a datagram that decrypts, the 28-byte ciphertext with an
\* empty plaintext included, leaves every decrypt-failure counter as it was.
C36_DecryptFailureCount ==
    [][Received
          => \A t \in Channels :
               decrypt_fail_count'[t] =
                  decrypt_fail_count[t] + (IF DecryptionFailsFor(t) THEN 1 ELSE 0)]_vars

----------------------------------------------------------------------------
(* Claims checked under SpecSession: the shared transport *)

\* C37: whatever endpoint configurations are delivered, there is never more
\* than one UDP socket, one receive worker and one keep-alive worker, and
\* the step that creates the socket sends a keep-alive to the endpoint it
\* was given.
C37_OneTransport ==
    /\ [](udp_sockets <= 1 /\ listener_threads <= 1 /\ heartbeat_threads <= 1)
    /\ [][udp_sockets' > udp_sockets
            => /\ initial_keepalive' # None
               /\ initial_keepalive' = global_config']_vars

\* the transport was set up for the first endpoint and a second endpoint
\* has been delivered since
C37_Witness ==
    /\ udp_sockets = 1 /\ listener_threads = 1 /\ heartbeat_threads = 1
    /\ global_udp_socket
    /\ initial_keepalive = Endpoint(1)
    /\ global_server_addr = Endpoint(1)
    /\ global_config = Endpoint(2)

----------------------------------------------------------------------------
(* The signalling connection's handler threads: start-up, the reconnect
   loop starting handlers, handlers connecting, failing and closing, the
   endpoint deliveries and shutdown *)

NextConnect ==
    \/ main_start_gpio
    \/ main_setup_channel
    \/ main_connect_websocket
    \/ global_websocket_thread_connect
    \/ websocket_handler_connected
    \/ websocket_handler_fails
    \/ websocket_closed
    \/ websocket_config
    \/ heartbeat_worker_iter
    \/ heartbeat_worker_handled
    \/ heartbeat_worker_leave
    \/ handle_interrupt

SpecConnect == InitWorkers /\ [][NextConnect]_vars

\* C38: at most one signalling connection handler is connecting or
\* connected at any time.
C38_OneHandler == ws_connecting + ws_connected <= 1

----------------------------------------------------------------------------
(* The broadcast buffer under its three users: start-up, capture writes,
   the detector's wake-ups (which copy the buffer under its lock) and the
   passthrough read, each taken on its own *)

NextBuffer ==
    \/ main_start_gpio
    \/ main_setup_channel
    \/ main_connect_websocket
    \/ broadcast_write
    \/ tone_detection_worker_wake
    \/ process_length_group
    \/ check_recording_timer
    \/ passthrough_consume

SpecBuffer == InitTone /\ [][NextBuffer]_vars

\* C39: whenever the broadcast buffer's lock is free, valid is true exactly
\* when sample_count > 0, and 0 <= sample_count <= SAMPLES_PER_FRAME.
C39_BroadcastConsistent ==
    shared_mutex = "free"
       => /\ global_shared_buffer.valid <=> global_shared_buffer.sample_count > 0
          /\ global_shared_buffer.sample_count >= 0
          /\ global_shared_buffer.sample_count <= SAMPLES_PER_FRAME

\* a capture write was copied by the detector and then read out by a
\* playback worker, which left the buffer empty and the lock free
C39_Witness ==
    /\ shared_mutex = "free"
    /\ writers # {}
    /\ audio_buffer_len > 0
    /\ \E c \in Channels : played[c] # <<>>
    /\ ~global_shared_buffer.valid
    /\ global_shared_buffer.sample_count = 0

----------------------------------------------------------------------------
(* The workers and their locks: start-up, then every interleaving of the
   lock operations of the capture, playback, receive, PTT and detector
   iterations *)

NextLocks ==
    \/ main_start_gpio
    \/ main_setup_channel
    \/ main_connect_websocket
    \/ worker_iterations
    \/ worker_lock_steps

SpecLocks == InitWorkers /\ [][NextLocks]_vars

\* the lock worker w is about to take, or NoOwner
Wanted(w) ==
    IF lock_script[w] # <<>> /\ Head(lock_script[w]).op \in {"acq", "use"}
    THEN Head(lock_script[w]).lock
    ELSE NoOwner

\* the worker that w waits for: the one inside the lock w is about to take
WaitsFor(w) == IF Wanted(w) = NoOwner THEN NoOwner ELSE lock_owner[Wanted(w)]

\* the workers w waits for, directly or through others, in at most n steps
RECURSIVE WaitChain(_, _)
WaitChain(w, n) ==
    IF n = 0 \/ WaitsFor(w) = NoOwner
    THEN {}
    ELSE {WaitsFor(w)} \cup WaitChain(WaitsFor(w), n - 1)

\* C40: in no reachable state does a worker wait for a lock that is held by
\* a worker waiting, directly or through others, for it: no cycle of
\* workers waiting on each other's locks, and no worker waiting for a lock
\* it holds itself.
C40_DeadlockFree ==
    \A w \in Workers : w \notin WaitChain(w, Cardinality(Workers))

\* the detector is inside the broadcast buffer's lock and about to take
\* the detector state's lock, which the PTT worker, inside gpio_mutex, is
\* about to take too; a capture worker and a playback worker wait for the
\* broadcast buffer's lock
C40_Witness ==
    /\ lock_owner[<<"shared", 0>>] = <<"detector", 0>>
    /\ Wanted(<<"detector", 0>>) = <<"detection", 0>>
    /\ lock_owner[<<"gpio", 0>>] = <<"gpio", 0>>
    /\ Wanted(<<"gpio", 0>>) = <<"detection", 0>>
    /\ WaitsFor(<<"capture", 0>>) = <<"detector", 0>>
    /\ WaitsFor(<<"playback", 0>>) = <<"detector", 0>>

====
